---- MODULE Spec2Model ----
(***************************************************************************)
(* Ping Pong Match Tracker: the record store (js/db.js), the import        *)
(* validator (ExportImport in js/app.js) and the handlers of js/ui.js that *)
(* call them.  The four IndexedDB object stores are sets of records keyed  *)
(* by the key path "id"; a record is a TLA+ record whose DOMAIN is the set *)
(* of properties the JavaScript object has.                                *)
(***************************************************************************)
EXTENDS Integers, Sequences, FiniteSets, TLC

VARIABLES rooms, players, matches, settings, now, dr, last, ui

storeVars == <<rooms, players, matches, settings>>
vars == <<rooms, players, matches, settings, now, dr, last, ui>>

(***************************************************************************)
(* Bounds of the model.                                                    *)
(***************************************************************************)
\* The wall clock (Date) runs from 1 to MaxClock.
MaxClock == 2

(***************************************************************************)
(* Identifiers.  generateId() is a time stamp plus five random characters: *)
(* nothing keeps two calls from returning the same string, so a create may *)
(* draw any identifier, one in use included.  IdOrder is the key order of  *)
(* IndexedDB (getAll returns records in ascending key order).              *)
(***************************************************************************)
RoomIds == {"r1", "r2"}
PlayerIds == {"p1", "p2"}
MatchIds == {"m1", "m2"}
IdOrder == <<"lastBackupDate", "lastRoomId", "m1", "m2", "p1", "p2", "p3", "r1", "r2">>

\* The strings generateId() may return, within the identifiers of a collection.
generateId(pool) == pool

Rank(id) == CHOOSE i \in 1..Len(IdOrder) : IdOrder[i] = id

(***************************************************************************)
(* JavaScript values.                                                      *)
(***************************************************************************)
Has(obj, f) == f \in DOMAIN obj
\* !obj.f for a string-valued property: undefined and "" are falsy.
Falsy(obj, f) == ~Has(obj, f) \/ obj[f] = ""
\* obj.f || ''
OrEmpty(obj, f) == IF Falsy(obj, f) THEN "" ELSE obj[f]
\* { ...a, ...b }
Spread(a, b) == [f \in DOMAIN a \cup DOMAIN b |-> IF f \in DOMAIN b THEN b[f] ELSE a[f]]
\* parseInt of the value of an <input type="number" min="0">
ParseInt(s) == CASE s = "0" -> 0 [] s = "1" -> 1 [] s = "2" -> 2

(***************************************************************************)
(* An object store with key path "id".                                     *)
(***************************************************************************)
HasKey(store, id) == \E r \in store : r.id = id
StoreGet(store, id) == CHOOSE r \in store : r.id = id
\* store.add: a ConstraintError when the key is in use, and nothing written.
AddOk(store, rec) == ~HasKey(store, rec.id)
\* As if a create used store.put.
StoreAddReplacing(store, rec) == {r \in store : r.id # rec.id} \cup {rec}
\* As if the store had no key constraint.
StoreAddUnchecked(store, rec) == store \cup {rec}
StoreAdd(store, rec) == IF HasKey(store, rec.id) THEN store ELSE store \cup {rec}
\* As if a put merged the record into the one stored under the key.
StorePutMerging(store, rec) ==
  {r \in store : r.id # rec.id} \cup {[f \in DOMAIN r \cup DOMAIN rec |-> IF f \in DOMAIN rec THEN rec[f] ELSE r[f]] : r \in {x \in store : x.id = rec.id}}
    \cup (IF \E x \in store : x.id = rec.id THEN {} ELSE {rec})
\* store.put: insert, or replace the record stored under the key.
StorePut(store, rec) == {r \in store : r.id # rec.id} \cup {rec}
\* store.delete: removes the record of the key, if there is one.
StoreDelete(store, id) == {r \in store : r.id # id}
\* As if a delete of a key that is not in use failed.
DeleteStatusMissing(store, id) == IF HasKey(store, id) THEN "resolved" ELSE "NotFound"
\* How a delete request ends: request.onsuccess, whether or not the key was in
\* use.
DeleteStatus(store, id) == "resolved"
\* index.getAll(value): the records whose indexed property equals value.
ByIndex(store, f, v) == {r \in store : Has(r, f) /\ r[f] = v}

\* A set of records as the array getAll returns: ascending key order.
RECURSIVE InKeyOrder(_)
InKeyOrder(S) ==
  IF S = {} THEN <<>>
  ELSE LET r == CHOOSE x \in S : \A y \in S : Rank(x.id) <= Rank(y.id)
       IN <<r>> \o InKeyOrder(S \ {r})

(***************************************************************************)
(* The record of the last step: the operation, how its promise settled,    *)
(* its argument and its result (both records).  The argument of a delete   *)
(* also keeps whether the key was in use when the request ran.             *)
(***************************************************************************)
None == [none |-> TRUE]
Call(op, status, arg, res) == [op |-> op, status |-> status, arg |-> arg, res |-> res]

\* No awaited handler is in flight: every handler shows the loading overlay
\* over the page until the promise it awaits settles.
Idle == dr.status # "pending"

IdleDr == [id |-> "", status |-> "idle", roomReq |-> "none",
           pRead |-> TRUE, pQueue |-> <<>>, pIssued |-> 0,
           mRead |-> TRUE, mQueue |-> <<>>, mIssued |-> 0]

\* The page of js/ui.js as it is loaded: no room chosen, the Players tab
\* active, the room content and the loading indicator hidden, the two player
\* selectors of the new-match form without players, and neither loadRoom nor
\* a read of populatePlayerSelectors in flight.
InitUi ==
  [currentRoom |-> "", currentTab |-> "players", content |-> FALSE, overlay |-> FALSE,
   options |-> {}, sel1 |-> "", sel2 |-> "", lrPc |-> "idle", lrRoom |-> "", pop |-> <<>>]

Init ==
  /\ rooms = {}
  /\ players = {}
  /\ matches = {}
  /\ settings = {}
  /\ now = 1
  /\ dr = IdleDr
  /\ last = Call("init", "resolved", None, None)
  /\ ui = InitUi

\* Time passes.
Tick ==
  /\ now < MaxClock
  /\ now' = now + 1
  /\ last' = Call("tick", "resolved", None, None)
  /\ UNCHANGED <<storeVars, dr, ui>>

(***************************************************************************)
(* Rooms.                                                                  *)
(***************************************************************************)
NewRoom(id, roomData, t1, t2) ==
  [id |-> id, name |-> roomData.name, description |-> OrEmpty(roomData, "description"),
   createdAt |-> t1, updatedAt |-> t2]

\* DB.createRoom.  The two new Date() calls read the clock one after the other.
CreateRoom(id, roomData, t2) ==
  /\ Idle
  /\ t2 \in now..MaxClock
  /\ LET room == NewRoom(id, roomData, now, t2) IN
       /\ rooms' = StoreAdd(rooms, room)
       /\ last' = Call("createRoom", IF AddOk(rooms, room) THEN "resolved" ELSE "ConstraintError",
                       [id |-> id], IF AddOk(rooms, room) THEN room ELSE None)
  /\ now' = t2
  /\ UNCHANGED <<players, matches, settings, dr, ui>>

\* As if the spread were { ...partial, ...existing }.
MergedExistingWins(existing, partial, t) == Spread(Spread(partial, existing), [updatedAt |-> t])
\* The record an update writes: { ...existing, ...partial, updatedAt: now }.
Merged(existing, partial, t) == Spread(Spread(existing, partial), [updatedAt |-> t])

\* The get-then-put of updateRoom / updatePlayer, in one transaction.
UpdateFound(store, partial) == HasKey(store, partial.id)
\* As if the update put the record without looking for the existing one.
UpdateStoreUpsert(store, partial, t) ==
  StorePut(store, IF UpdateFound(store, partial)
                  THEN Merged(StoreGet(store, partial.id), partial, t)
                  ELSE Spread(partial, [updatedAt |-> t]))
UpdateStore(store, partial, t) ==
  IF UpdateFound(store, partial)
  THEN StorePut(store, Merged(StoreGet(store, partial.id), partial, t))
  ELSE store
UpdateResult(store, partial, t) ==
  IF UpdateFound(store, partial) THEN Merged(StoreGet(store, partial.id), partial, t) ELSE None

\* DB.updateRoom
UpdateRoom(partial) ==
  /\ Idle
  /\ rooms' = UpdateStore(rooms, partial, now)
  /\ last' = Call("updateRoom", IF UpdateFound(rooms, partial) THEN "resolved" ELSE "NotFound",
                  partial, UpdateResult(rooms, partial, now))
  /\ UNCHANGED <<players, matches, settings, now, dr, ui>>

(***************************************************************************)
(* Players.                                                                *)
(***************************************************************************)
NewPlayer(id, playerData, t1, t2) ==
  [id |-> id, roomId |-> playerData.roomId, name |-> playerData.name,
   nickname |-> OrEmpty(playerData, "nickname"), createdAt |-> t1, updatedAt |-> t2]

\* DB.createPlayer
CreatePlayer(id, playerData, t2) ==
  /\ Idle
  /\ t2 \in now..MaxClock
  /\ LET player == NewPlayer(id, playerData, now, t2) IN
       /\ players' = StoreAdd(players, player)
       /\ last' = Call("createPlayer", IF AddOk(players, player) THEN "resolved" ELSE "ConstraintError",
                       [id |-> id], IF AddOk(players, player) THEN player ELSE None)
  /\ now' = t2
  /\ UNCHANGED <<rooms, matches, settings, dr, ui>>

\* DB.updatePlayer
UpdatePlayer(partial) ==
  /\ Idle
  /\ players' = UpdateStore(players, partial, now)
  /\ last' = Call("updatePlayer", IF UpdateFound(players, partial) THEN "resolved" ELSE "NotFound",
                  partial, UpdateResult(players, partial, now))
  /\ UNCHANGED <<rooms, matches, settings, now, dr, ui>>

\* DB.deletePlayer
\* As if deletePlayer also deleted the matches the player took part in.
DeletePlayerAndMatches(id) ==
  /\ Idle
  /\ players' = StoreDelete(players, id)
  /\ matches' = {m \in matches : ~(Has(m, "player1Id") /\ m.player1Id = id)
                                 /\ ~(Has(m, "player2Id") /\ m.player2Id = id)}
  /\ last' = Call("deletePlayer", DeleteStatus(players, id), [id |-> id, existed |-> HasKey(players, id)], None)
  /\ UNCHANGED <<rooms, settings, now, dr, ui>>

DeletePlayer(id) ==
  /\ Idle
  /\ players' = StoreDelete(players, id)
  /\ last' = Call("deletePlayer", DeleteStatus(players, id), [id |-> id, existed |-> HasKey(players, id)], None)
  /\ UNCHANGED <<rooms, matches, settings, now, dr, ui>>

(***************************************************************************)
(* Matches.                                                                *)
(***************************************************************************)
\* The winner DB.createMatch determines from the parsed scores.
Winner(matchData) ==
  IF ParseInt(matchData.player1Score) > ParseInt(matchData.player2Score)
  THEN matchData.player1Id ELSE matchData.player2Id

NewMatch(id, matchData, t) ==
  [id |-> id, roomId |-> matchData.roomId,
   player1Id |-> matchData.player1Id, player2Id |-> matchData.player2Id,
   player1Score |-> ParseInt(matchData.player1Score),
   player2Score |-> ParseInt(matchData.player2Score),
   winnerId |-> Winner(matchData), notes |-> OrEmpty(matchData, "notes"), date |-> t]

\* DB.createMatch
CreateMatch(id, matchData) ==
  /\ Idle
  /\ LET match == NewMatch(id, matchData, now) IN
       /\ matches' = StoreAdd(matches, match)
       /\ last' = Call("createMatch", IF AddOk(matches, match) THEN "resolved" ELSE "ConstraintError",
                       [id |-> id], IF AddOk(matches, match) THEN match ELSE None)
  /\ UNCHANGED <<rooms, players, settings, now, dr, ui>>

\* DB.deleteMatch
DeleteMatch(id) ==
  /\ Idle
  /\ matches' = StoreDelete(matches, id)
  /\ last' = Call("deleteMatch", DeleteStatus(matches, id), [id |-> id, existed |-> HasKey(matches, id)], None)
  /\ UNCHANGED <<rooms, players, settings, now, dr, ui>>

(***************************************************************************)
(* Settings.                                                               *)
(***************************************************************************)
\* DB.saveSetting
SaveSetting(key, value) ==
  /\ Idle
  /\ settings' = StorePut(settings, [id |-> key, value |-> value, updatedAt |-> now])
  /\ last' = Call("saveSetting", "resolved", [id |-> key], None)
  /\ UNCHANGED <<rooms, players, matches, now, dr, ui>>

(***************************************************************************)
(* DB.deleteRoom: three deletions issued together and joined by            *)
(* Promise.all.  Each request is a transaction of its own; the requests on *)
(* one store complete in the order they were issued, those on different    *)
(* stores in any order.  dr is the cascade in flight: the room delete      *)
(* request, and for players and matches whether getPlayersInRoom /         *)
(* getMatchesInRoom has answered and the delete requests then issued.      *)
(***************************************************************************)
\* Every request of the cascade has completed.
Drained(d) ==
  /\ d.roomReq # "pending"
  /\ d.pRead /\ d.pQueue = <<>>
  /\ d.mRead /\ d.mQueue = <<>>

\* As if Promise.all did not wait for deleteAllMatchesInRoom.
AllResolvedWithoutMatches(d) == d.roomReq = "ok" /\ d.pRead /\ d.pQueue = <<>>
\* As if deleteRoom returned the promise of the room's own delete request.
AllResolvedRoomOnly(d) == d.roomReq = "ok"
\* Promise.all([deleteRoom, deletePlayers, deleteMatches]) resolves when all
\* three have resolved.
AllResolved(d) == Drained(d) /\ d.roomReq = "ok"

\* The promise deleteRoom returned, after a request completed (failed or not).
Settle(d, failed) ==
  IF d.status # "pending" THEN d.status
  ELSE IF failed THEN "rejected"
  ELSE IF AllResolved(d) THEN "resolved"
  ELSE "pending"

\* A request of the cascade completed, leaving it as d: the promise settles if
\* it can, and nothing is kept of a cascade that has no request left.
\* The value the promise resolves with: [undefined, [...], [...]], one entry
\* per delete request of deleteAllPlayersInRoom and of deleteAllMatchesInRoom.
Resolved(d, status) ==
  IF status = "resolved" THEN [players |-> d.pIssued, matches |-> d.mIssued] ELSE None

\* As if a failed request cancelled the requests still outstanding.
DrStepCancelling(d, failed) ==
  /\ dr' = IF Drained(d) \/ failed THEN IdleDr ELSE [d EXCEPT !.status = Settle(d, failed)]
  /\ last' = Call("deleteRoom", Settle(d, failed), [id |-> d.id], Resolved(d, Settle(d, failed)))
DrStep(d, failed) ==
  /\ dr' = IF Drained(d) THEN IdleDr ELSE [d EXCEPT !.status = Settle(d, failed)]
  /\ last' = Call("deleteRoom", Settle(d, failed), [id |-> d.id], Resolved(d, Settle(d, failed)))

Ids(seq) == [i \in 1..Len(seq) |-> seq[i].id]

\* DB.deleteRoom(id) up to its return: the requests are issued.
DeleteRoom(id) ==
  /\ Idle
  /\ Drained(dr)
  /\ dr' = [id |-> id, status |-> "pending", roomReq |-> "pending",
            pRead |-> FALSE, pQueue |-> <<>>, pIssued |-> 0,
            mRead |-> FALSE, mQueue |-> <<>>, mIssued |-> 0]
  /\ last' = Call("deleteRoom", "pending", [id |-> id], None)
  /\ UNCHANGED <<storeVars, now, ui>>

\* The delete request on the rooms store succeeds.
DrRoomDeleted ==
  /\ dr.roomReq = "pending"
  /\ rooms' = StoreDelete(rooms, dr.id)
  /\ DrStep([dr EXCEPT !.roomReq = "ok"], FALSE)
  /\ UNCHANGED <<players, matches, settings, now, ui>>

\* getPlayersInRoom answers; deleteAllPlayersInRoom issues one delete each.
DrPlayersRead ==
  /\ ~dr.pRead
  /\ DrStep([dr EXCEPT !.pRead = TRUE,
                       !.pQueue = Ids(InKeyOrder(ByIndex(players, "roomId", dr.id))),
                       !.pIssued = Cardinality(ByIndex(players, "roomId", dr.id))], FALSE)
  /\ UNCHANGED <<storeVars, now, ui>>

\* The oldest delete request on the players store succeeds.
DrPlayerDeleted ==
  /\ dr.pQueue # <<>>
  /\ players' = StoreDelete(players, Head(dr.pQueue))
  /\ DrStep([dr EXCEPT !.pQueue = Tail(@)], FALSE)
  /\ UNCHANGED <<rooms, matches, settings, now, ui>>

\* getMatchesInRoom answers; deleteAllMatchesInRoom issues one delete each.
DrMatchesRead ==
  /\ ~dr.mRead
  /\ DrStep([dr EXCEPT !.mRead = TRUE,
                       !.mQueue = Ids(InKeyOrder(ByIndex(matches, "roomId", dr.id))),
                       !.mIssued = Cardinality(ByIndex(matches, "roomId", dr.id))], FALSE)
  /\ UNCHANGED <<storeVars, now, ui>>

\* The oldest delete request on the matches store succeeds.
DrMatchDeleted ==
  /\ dr.mQueue # <<>>
  /\ matches' = StoreDelete(matches, Head(dr.mQueue))
  /\ DrStep([dr EXCEPT !.mQueue = Tail(@)], FALSE)
  /\ UNCHANGED <<rooms, players, settings, now, ui>>

\* A request fails (request.onerror): nothing is deleted and the promise rejects.
DrRoomFailed ==
  /\ dr.roomReq = "pending"
  /\ DrStep([dr EXCEPT !.roomReq = "failed"], TRUE)
  /\ UNCHANGED <<storeVars, now, ui>>

DrPlayerFailed ==
  /\ dr.pQueue # <<>>
  /\ DrStep([dr EXCEPT !.pQueue = Tail(@)], TRUE)
  /\ UNCHANGED <<storeVars, now, ui>>

DrMatchFailed ==
  /\ dr.mQueue # <<>>
  /\ DrStep([dr EXCEPT !.mQueue = Tail(@)], TRUE)
  /\ UNCHANGED <<storeVars, now, ui>>

(***************************************************************************)
(* Export and import.  A bundle is the parsed JSON document: a record that *)
(* has the properties the document has.  JSON that is no object (null, a   *)
(* number, a string) is the record [primitive |-> ...].                    *)
(***************************************************************************)
version == 1

Store == [rooms |-> rooms, players |-> players, matches |-> matches, settings |-> settings]
EmptyStore == [rooms |-> {}, players |-> {}, matches |-> {}, settings |-> {}]

IsObject(data) == ~Has(data, "primitive")
\* data.version is truthy
HasVersion(data) == Has(data, "version") /\ data.version # 0

RECURSIVE Concat(_)
Concat(seqs) == IF seqs = <<>> THEN <<>> ELSE Head(seqs) \o Concat(Tail(seqs))

\* DB.exportAllData: the rooms, then the players and the matches of each of
\* those rooms (by the roomId index), then the settings.
exportAllData(st, t) ==
  LET rs == InKeyOrder(st.rooms) IN
  [version |-> version, exportDate |-> t, rooms |-> rs,
   players |-> Concat([i \in 1..Len(rs) |-> InKeyOrder(ByIndex(st.players, "roomId", rs[i].id))]),
   matches |-> Concat([i \in 1..Len(rs) |-> InKeyOrder(ByIndex(st.matches, "roomId", rs[i].id))]),
   settings |-> InKeyOrder(st.settings)]

\* As if exportRoomData read the whole players store.
exportRoomDataAllPlayers(st, roomId, t) ==
  [version |-> version, exportDate |-> t, room |-> StoreGet(st.rooms, roomId),
   players |-> InKeyOrder(st.players),
   matches |-> InKeyOrder(ByIndex(st.matches, "roomId", roomId))]
\* DB.exportRoomData for a room that getRoom finds: the room, the players and
\* the matches of the roomId index.
exportRoomData(st, roomId, t) ==
  [version |-> version, exportDate |-> t, room |-> StoreGet(st.rooms, roomId),
   players |-> InKeyOrder(ByIndex(st.players, "roomId", roomId)),
   matches |-> InKeyOrder(ByIndex(st.matches, "roomId", roomId))]

\* DB.exportRoomData: rejects with 'Room not found' when getRoom finds none.
ExportRoomData(roomId) ==
  /\ Idle
  /\ last' = IF HasKey(rooms, roomId)
             THEN Call("exportRoomData", "resolved", [id |-> roomId], exportRoomData(Store, roomId, now))
             ELSE Call("exportRoomData", "NotFound", [id |-> roomId], None)
  /\ UNCHANGED <<storeVars, now, dr, ui>>

\* Array.from(new Map(array.map(m => [m.id, m])).values()): one entry per id,
\* where the id first occurs, holding the last record of that id.
IsFirstOfId(seq, i) == \A j \in 1..(i - 1) : seq[j].id # seq[i].id
LastWithId(seq, i) ==
  seq[CHOOSE j \in i..Len(seq) : seq[j].id = seq[i].id /\ \A k \in (j + 1)..Len(seq) : seq[k].id # seq[i].id]
RECURSIVE MapValues(_, _)
MapValues(seq, i) ==
  IF i > Len(seq) THEN <<>>
  ELSE (IF IsFirstOfId(seq, i) THEN <<LastWithId(seq, i)>> ELSE <<>>) \o MapValues(seq, i + 1)

\* As if the two index reads were only concatenated.
getPlayerMatchesCombined(st, playerId) ==
  InKeyOrder(ByIndex(st.matches, "player1Id", playerId))
    \o InKeyOrder(ByIndex(st.matches, "player2Id", playerId))
\* DB.getPlayerMatches: the matches of the player1Id index, then those of the
\* player2Id index, without duplicates.
getPlayerMatches(st, playerId) ==
  MapValues(InKeyOrder(ByIndex(st.matches, "player1Id", playerId))
              \o InKeyOrder(ByIndex(st.matches, "player2Id", playerId)), 1)

GetPlayerMatches(playerId) ==
  /\ Idle
  /\ last' = Call("getPlayerMatches", "resolved", [id |-> playerId],
                  [matches |-> getPlayerMatches(Store, playerId)])
  /\ UNCHANGED <<storeVars, now, dr, ui>>

\* ExportImport.validateImportData: the error it throws, or NoError.
NoError == [error |-> "", index |-> -1, field |-> ""]
Error(what, index, field) == [error |-> what, index |-> index, field |-> field]

MissingRoomField(room) ==
  IF Falsy(room, "id") THEN "id" ELSE IF Falsy(room, "name") THEN "name" ELSE ""
MissingPlayerField(player) ==
  IF Falsy(player, "id") THEN "id"
  ELSE IF Falsy(player, "roomId") THEN "roomId"
  ELSE IF Falsy(player, "name") THEN "name" ELSE ""
MissingMatchField(match) ==
  IF Falsy(match, "id") THEN "id"
  ELSE IF Falsy(match, "roomId") THEN "roomId"
  ELSE IF Falsy(match, "player1Id") THEN "player1Id"
  ELSE IF Falsy(match, "player2Id") THEN "player2Id"
  ELSE IF ~Has(match, "player1Score") THEN "player1Score"
  ELSE IF ~Has(match, "player2Score") THEN "player2Score"
  ELSE IF Falsy(match, "winnerId") THEN "winnerId"
  ELSE IF ~Has(match, "date") THEN "date" ELSE ""

\* forEach over an array, throwing at the first record that misses a field;
\* missing is the missing field of each record of the array, "" for none.
FirstBad(missing) ==
  IF \E i \in 1..Len(missing) : missing[i] # ""
  THEN CHOOSE i \in 1..Len(missing) : missing[i] # "" /\ \A j \in 1..(i - 1) : missing[j] = ""
  ELSE 0

\* As if the index cited were counted from one.
CheckArrayFromOne(what, missing) ==
  IF FirstBad(missing) = 0 THEN NoError
  ELSE Error(what, FirstBad(missing), missing[FirstBad(missing)])

CheckArray(what, missing) ==
  IF FirstBad(missing) = 0 THEN NoError
  ELSE Error(what, FirstBad(missing) - 1, missing[FirstBad(missing)])

CheckRooms(seq) == CheckArray("Room", [i \in 1..Len(seq) |-> MissingRoomField(seq[i])])
CheckPlayers(seq) == CheckArray("Player", [i \in 1..Len(seq) |-> MissingPlayerField(seq[i])])
CheckMatches(seq) == CheckArray("Match", [i \in 1..Len(seq) |-> MissingMatchField(seq[i])])

\* As if the version were looked for after the rooms.
validateImportDataRoomsFirst(data) ==
  IF ~IsObject(data) THEN Error("Data must be an object", -1, "")
  ELSE IF ~Has(data, "rooms") /\ ~Has(data, "room") THEN Error("Missing rooms or room", -1, "rooms")
  ELSE IF ~HasVersion(data) THEN Error("Missing version", -1, "version")
  ELSE IF Has(data, "rooms") /\ CheckRooms(data.rooms) # NoError THEN CheckRooms(data.rooms)
  ELSE IF Has(data, "room") /\ MissingRoomField(data.room) # ""
    THEN Error("Room", -1, MissingRoomField(data.room))
  ELSE IF Has(data, "players") /\ CheckPlayers(data.players) # NoError THEN CheckPlayers(data.players)
  ELSE IF Has(data, "matches") /\ CheckMatches(data.matches) # NoError THEN CheckMatches(data.matches)
  ELSE NoError

validateImportData(data) ==
  IF ~IsObject(data) THEN Error("Data must be an object", -1, "")
  ELSE IF ~HasVersion(data) THEN Error("Missing version", -1, "version")
  ELSE IF ~Has(data, "rooms") /\ ~Has(data, "room") THEN Error("Missing rooms or room", -1, "rooms")
  ELSE IF Has(data, "rooms") /\ CheckRooms(data.rooms) # NoError THEN CheckRooms(data.rooms)
  ELSE IF Has(data, "room") /\ MissingRoomField(data.room) # ""
    THEN Error("Room", -1, MissingRoomField(data.room))
  ELSE IF Has(data, "players") /\ CheckPlayers(data.players) # NoError THEN CheckPlayers(data.players)
  ELSE IF Has(data, "matches") /\ CheckMatches(data.matches) # NoError THEN CheckMatches(data.matches)
  ELSE NoError

\* The puts of DB.importData, in the order it issues them.
InStore(name, seq) == [i \in 1..Len(seq) |-> [store |-> name, rec |-> seq[i]]]
\* As if the players were written before the rooms.
WritesPlayersFirst(data) ==
  (IF Has(data, "players") THEN InStore("players", data.players) ELSE <<>>)
  \o (IF Has(data, "rooms") THEN InStore("rooms", data.rooms)
      ELSE IF Has(data, "room") THEN InStore("rooms", <<data.room>>) ELSE <<>>)
  \o (IF Has(data, "matches") THEN InStore("matches", data.matches) ELSE <<>>)
  \o (IF Has(data, "settings") THEN InStore("settings", data.settings) ELSE <<>>)
Writes(data) ==
  (IF Has(data, "rooms") THEN InStore("rooms", data.rooms)
   ELSE IF Has(data, "room") THEN InStore("rooms", <<data.room>>) ELSE <<>>)
  \o (IF Has(data, "players") THEN InStore("players", data.players) ELSE <<>>)
  \o (IF Has(data, "matches") THEN InStore("matches", data.matches) ELSE <<>>)
  \o (IF Has(data, "settings") THEN InStore("settings", data.settings) ELSE <<>>)

\* store.put throws a DataError for a record that has no key at the key path.
\* The number of writes that succeed before the first such record.
Written(w) ==
  IF \E i \in 1..Len(w) : ~Has(w[i].rec, "id")
  THEN (CHOOSE i \in 1..Len(w) : ~Has(w[i].rec, "id") /\ \A j \in 1..(i - 1) : Has(w[j].rec, "id")) - 1
  ELSE Len(w)

\* The store after the first n writes.
RECURSIVE ApplyWrites(_, _, _)
ApplyWrites(st, w, n) ==
  IF n = 0 THEN st
  ELSE LET s1 == ApplyWrites(st, w, n - 1)
       IN [s1 EXCEPT ![w[n].store] = StorePut(@, w[n].rec)]

\* DB.importData on the store st: whether it passes the check of line 831,
\* how the promise settles and the store it leaves.
DbImportAccepts(data) == IsObject(data) /\ HasVersion(data)
DbImportStatus(data) ==
  IF ~DbImportAccepts(data) THEN "Invalid data format"
  ELSE IF Written(Writes(data)) < Len(Writes(data)) THEN "DataError"
  ELSE "resolved"
\* As if the import emptied the collections before writing the bundle.
DbImportStoreFresh(st, data) ==
  IF ~DbImportAccepts(data) THEN st ELSE ApplyWrites(EmptyStore, Writes(data), Written(Writes(data)))
DbImportStore(st, data) ==
  IF ~DbImportAccepts(data) THEN st ELSE ApplyWrites(st, Writes(data), Written(Writes(data)))

\* ExportImport.importData: validateImportData, then DB.importData.
ValidatedImportStatus(data) ==
  IF validateImportData(data) # NoError THEN "ValidationError" ELSE DbImportStatus(data)
ValidatedImportStore(st, data) ==
  IF validateImportData(data) # NoError THEN st ELSE DbImportStore(st, data)

SetStore(st) ==
  /\ rooms' = st.rooms
  /\ players' = st.players
  /\ matches' = st.matches
  /\ settings' = st.settings

ImportArg(data) == [data |-> data]

\* DB.getSetting: the value of the setting; "" stands for null and undefined.
getSetting(st, key) ==
  IF HasKey(st.settings, key) /\ Has(StoreGet(st.settings, key), "value")
  THEN StoreGet(st.settings, key).value ELSE ""

\* The room UI.handleImportData loads once the import has resolved: the last
\* selected room if it is stored, the first room otherwise, "" for none.
RoomToLoad(st) ==
  IF getSetting(st, "lastRoomId") # "" /\ HasKey(st.rooms, getSetting(st, "lastRoomId"))
  THEN getSetting(st, "lastRoomId")
  ELSE IF st.rooms # {} THEN InKeyOrder(st.rooms)[1].id ELSE ""

\* UI.loadRoom, as far as it writes: saveSetting('lastRoomId', roomId) when the
\* room is stored.
loadRoom(st, roomId, t) ==
  IF HasKey(st.rooms, roomId)
  THEN [st EXCEPT !.settings = StorePut(@, [id |-> "lastRoomId", value |-> roomId, updatedAt |-> t])]
  ELSE st

\* UI.handleImportData: the file's JSON goes to DB.importData, and when that
\* has resolved a room is loaded.
HandleImportData(data) ==
  /\ Idle
  /\ SetStore(IF DbImportStatus(data) = "resolved"
              THEN loadRoom(DbImportStore(Store, data), RoomToLoad(DbImportStore(Store, data)), now)
              ELSE DbImportStore(Store, data))
  /\ last' = Call("handleImportData", DbImportStatus(data), ImportArg(data), None)
  /\ UNCHANGED <<now, dr, ui>>

\* ExportImport.importData; the result kept is the error validateImportData
\* threw, or NoError.
ImportData(data) ==
  /\ Idle
  /\ SetStore(ValidatedImportStore(Store, data))
  /\ last' = Call("importData", ValidatedImportStatus(data), ImportArg(data), validateImportData(data))
  /\ UNCHANGED <<now, dr, ui>>

(***************************************************************************)
(* Inputs.                                                                 *)
(***************************************************************************)
\* What the forms of ui.js pass: trimmed, non-empty names; the scores of the
\* number inputs; two different players.
RoomInputs == {[name |-> "A", description |-> ""], [name |-> "B", description |-> "d"]}
PlayerInputs ==
  {[roomId |-> r, name |-> "A", nickname |-> ""] : r \in RoomIds}
  \cup {[roomId |-> r, name |-> "B", nickname |-> "n"] : r \in RoomIds}
RoomPartials ==
  {[id |-> i, name |-> "C"] : i \in RoomIds}
  \cup {[id |-> i, description |-> "e"] : i \in RoomIds}
PlayerPartials ==
  {[id |-> i, name |-> "C", nickname |-> ""] : i \in PlayerIds}
  \cup {[id |-> i, nickname |-> "m"] : i \in PlayerIds}
ScoreInputs == {"0", "1", "2"}
MatchInputs ==
  {d \in [roomId : {"r1"}, player1Id : PlayerIds, player2Id : PlayerIds,
          player1Score : ScoreInputs, player2Score : ScoreInputs, notes : {""}] :
     d.player1Id # d.player2Id}

\* One input per collection, for the specifications in which the field values
\* play no part.
OneRoomInput == {[name |-> "A", description |-> ""]}
OnePlayerInput == {[roomId |-> "r1", name |-> "A", nickname |-> ""]}
PlayerPerRoom == {[roomId |-> r, name |-> "A", nickname |-> ""] : r \in RoomIds}
OneMatchInput ==
  {[roomId |-> r, player1Id |-> "p1", player2Id |-> "p2",
    player1Score |-> "2", player2Score |-> "1", notes |-> ""] : r \in RoomIds}

\* Records of import bundles: as the application writes them, and others that
\* a JSON file may hold.
BRoom == [id |-> "r1", name |-> "A", description |-> "", createdAt |-> 1, updatedAt |-> 1]
BRoomBackdated == [id |-> "r2", name |-> "B", description |-> "", createdAt |-> 2, updatedAt |-> 1]
BRoomNoName == [id |-> "r1"]
BRoomNoId == [name |-> "A"]
BPlayer == [id |-> "p1", roomId |-> "r1", name |-> "A", nickname |-> "", createdAt |-> 1, updatedAt |-> 1]
BPlayerOther == [id |-> "p2", roomId |-> "r2", name |-> "B", nickname |-> "", createdAt |-> 1, updatedAt |-> 1]
BPlayerBare == [id |-> "p1"]
BMatch == [id |-> "m1", roomId |-> "r1", player1Id |-> "p1", player2Id |-> "p2",
           player1Score |-> 2, player2Score |-> 1, winnerId |-> "p1", notes |-> "", date |-> 1]
BMatchOutsider == [BMatch EXCEPT !.id = "m2", !.winnerId = "p3"]
BMatchSelf == [BMatch EXCEPT !.id = "m2", !.player2Id = "p1", !.date = 2]
BMatchBare == [id |-> "m1"]
BSetting == [id |-> "lastRoomId", value |-> "r1", updatedAt |-> 1]

\* The bundles.
Exported(rs, ps, ms, ss) ==
  [version |-> version, exportDate |-> 1, rooms |-> rs, players |-> ps, matches |-> ms, settings |-> ss]
Bundles ==
  { Exported(<<BRoom>>, <<BPlayer>>, <<BMatch>>, <<BSetting>>),
    Exported(<<BRoom, BRoomBackdated>>, <<BPlayer, BPlayerOther>>, <<>>, <<>>),
    [version |-> version, exportDate |-> 1, room |-> BRoom, players |-> <<BPlayer>>, matches |-> <<BMatch>>],
    [version |-> version, rooms |-> <<>>, players |-> <<BPlayerOther>>],
    [version |-> version, rooms |-> <<BRoomBackdated>>],
    [version |-> version, rooms |-> <<BRoomNoName>>],
    [version |-> version, rooms |-> <<BRoom>>, matches |-> <<BMatchOutsider>>],
    [version |-> version, rooms |-> <<BRoom>>, matches |-> <<BMatchSelf>>],
    [version |-> version, rooms |-> <<BRoom, BRoomNoId>>, players |-> <<BPlayer>>],
    [version |-> version, players |-> <<BPlayerBare>>],
    [version |-> version, matches |-> <<BMatchBare>>],
    [rooms |-> <<BRoom>>],
    [exportDate |-> 1],
    [primitive |-> "null"] }

\* Bundles outside the two forms of an export: two records of one id, a room
\* beside the rooms.
BRoomRenamed == [id |-> "r1", name |-> "C"]
OddBundles ==
  { [version |-> version, rooms |-> <<BRoom, BRoomRenamed>>],
    [version |-> version, rooms |-> <<BRoom>>, room |-> BRoomBackdated],
    [matches |-> <<BMatchBare>>],
    <<>> }

\* Bundles with rooms whose first or second match lacks a field.
BMatchNoWinner == [id |-> "m2", roomId |-> "r1", player1Id |-> "p1", player2Id |-> "p2",
                   player1Score |-> 2, player2Score |-> 1]
BadMatchBundles ==
  { [version |-> version, rooms |-> <<BRoom>>, matches |-> <<BMatchBare>>],
    [version |-> version, rooms |-> <<>>, matches |-> <<BMatch, BMatchNoWinner>>] }

\* The bundles of an export, of rooms and players, and of rooms and matches.
ExportBundles == {b \in Bundles : Has(b, "version") /\ Has(b, "exportDate") /\ Has(b, "matches")}
UpdateBundles ==
  {b \in Bundles : Has(b, "version") /\ ~Has(b, "exportDate") /\ ~Has(b, "matches")
                   /\ \A i \in 1..Len(Writes(b)) : Writes(b)[i].rec \notin {BPlayerOther, BRoomNoId}}
MatchBundles == {b \in Bundles : ~Has(b, "players") /\ ~Has(b, "settings")}

(***************************************************************************)
(* The record store: every operation of js/db.js on the four collections,  *)
(* each with one input per identifier, and the import of exported bundles. *)
(* The clock stands still.                                                 *)
(***************************************************************************)
Cascade ==
  \/ \E id \in RoomIds : DeleteRoom(id)
  \/ DrRoomDeleted
  \/ DrPlayersRead
  \/ DrPlayerDeleted
  \/ DrMatchesRead
  \/ DrMatchDeleted

Next ==
  \/ \E id \in generateId(RoomIds), d \in OneRoomInput : CreateRoom(id, d, now)
  \/ \E p \in {q \in RoomPartials : Has(q, "name")} : UpdateRoom(p)
  \/ \E id \in generateId(PlayerIds), d \in OnePlayerInput : CreatePlayer(id, d, now)
  \/ \E p \in {q \in PlayerPartials : Has(q, "name")} : UpdatePlayer(p)
  \/ \E id \in PlayerIds : DeletePlayer(id)
  \/ \E id \in generateId(MatchIds), d \in OneMatchInput : CreateMatch(id, d)
  \/ \E id \in MatchIds : DeleteMatch(id)
  \/ SaveSetting("lastRoomId", "r2")
  \/ Cascade
  \/ \E data \in ExportBundles : HandleImportData(data)

Spec == Init /\ [][Next]_vars

(***************************************************************************)
(* Rooms and players as time passes: create, update, delete and the import *)
(* of bundles of rooms and players.                                        *)
(***************************************************************************)
NextUpdate ==
  \/ Tick
  \/ \E id \in generateId(RoomIds), d \in OneRoomInput, t2 \in now..MaxClock : CreateRoom(id, d, t2)
  \/ \E p \in {q \in RoomPartials : Has(q, "name")} : UpdateRoom(p)
  \/ \E id \in generateId({"p1"}), d \in OnePlayerInput : CreatePlayer(id, d, now)
  \/ \E p \in PlayerPartials : UpdatePlayer(p)
  \/ \E id \in PlayerIds : DeletePlayer(id)
  \/ \E data \in UpdateBundles : HandleImportData(data)

SpecUpdate == Init /\ [][NextUpdate]_vars

(***************************************************************************)
(* Matches: every pair of players and of scores, delete, and the import of *)
(* bundles of matches.                                                     *)
(***************************************************************************)
NextMatch ==
  \/ \E id \in generateId(MatchIds), d \in MatchInputs : CreateMatch(id, d)
  \/ \E id \in MatchIds : DeleteMatch(id)
  \/ \E data \in MatchBundles : HandleImportData(data)

SpecMatch == Init /\ [][NextMatch]_vars

(***************************************************************************)
(* The cascade with failing requests.                                      *)
(***************************************************************************)
NextCascade ==
  \/ \E id \in generateId(RoomIds), d \in OneRoomInput : CreateRoom(id, d, now)
  \/ \E id \in generateId(PlayerIds), d \in PlayerPerRoom : CreatePlayer(id, d, now)
  \/ \E id \in generateId(MatchIds), d \in OneMatchInput : CreateMatch(id, d)
  \/ Cascade
  \/ DrRoomFailed
  \/ DrPlayerFailed
  \/ DrMatchFailed

SpecCascade == Init /\ [][NextCascade]_vars

(***************************************************************************)
(* Import: both entry points, every bundle.                                *)
(***************************************************************************)
ImportBundles == Bundles \cup OddBundles \cup BadMatchBundles

NextImport ==
  \/ \E data \in ImportBundles : HandleImportData(data)
  \/ \E data \in ImportBundles : ImportData(data)
  \/ \E id \in PlayerIds : DeletePlayer(id)
  \/ \E id \in MatchIds : DeleteMatch(id)

SpecImport == Init /\ [][NextImport]_vars

(***************************************************************************)
(* The reads: the export of a room and the matches of a player, over rooms, *)
(* players and matches of both rooms and a match of a player with itself.  *)
(***************************************************************************)
SelfMatchBundles == {b \in Bundles : Has(b, "matches") /\ BMatchSelf \in {b.matches[i] : i \in 1..Len(b.matches)}}

NextQuery ==
  \/ \E id \in generateId(RoomIds), d \in OneRoomInput : CreateRoom(id, d, now)
  \/ \E id \in generateId(PlayerIds), d \in PlayerPerRoom : CreatePlayer(id, d, now)
  \/ \E id \in generateId(MatchIds), d \in OneMatchInput : CreateMatch(id, d)
  \/ \E data \in SelfMatchBundles : HandleImportData(data)
  \/ \E id \in RoomIds : ExportRoomData(id)
  \/ \E id \in PlayerIds : GetPlayerMatches(id)

SpecQuery == Init /\ [][NextQuery]_vars

(***************************************************************************)
(* Statistics (js/stats.js).  The functions are pure: each takes the list  *)
(* of matches it is given, in the order it is given.  A date is the clock  *)
(* value the ISO string of the match stands for, so new Date(a.date) -     *)
(* new Date(b.date) is the difference of the two values.  Numbers the code *)
(* rounds to one or two decimals are kept as tenths and hundredths.        *)
(***************************************************************************)
\* The longest list of matches a statistics function is given.
MaxMatches == 4
\* The dates of the matches of such a list run from 1 to MaxDate.
MaxDate == 4

\* Math.round(a / b * scale) for b > 0: the nearest integer, a half rounded
\* up.  (No quotient within the bounds is a half that floating point misses.)
RoundScaled(a, b, scale) == (2 * scale * a + b) \div (2 * b)

\* Infinity, and a finite ratio given in hundredths.
Infinity == [infinity |-> TRUE]
Ratio(h) == [hundredths |-> h]

\* match.player1Id === id || match.player2Id === id
Plays(m, id) == m.player1Id = id \/ m.player2Id = id

\* matches.filter(match => match.player1Id === id || match.player2Id === id)
playerMatches(ms, id) ==
  LET Test(m) == Plays(m, id) IN SelectSeq(ms, Test)

\* As if the wins were counted over the whole list.
CountWinsOfAll(ms, id) ==
  LET Test(m) == m.winnerId = id IN Len(SelectSeq(ms, Test))
\* playerMatches.filter(match => match.winnerId === id).length
CountWins(ms, id) ==
  LET Test(m) == m.winnerId = id IN Len(SelectSeq(playerMatches(ms, id), Test))

\* Array.prototype.sort is stable: an element goes behind the elements that
\* compare equal to it and were before it.
RECURSIVE InsertByDateDesc(_, _)
InsertByDateDesc(sorted, m) ==
  IF sorted = <<>> THEN <<m>>
  ELSE IF Head(sorted).date >= m.date
       THEN <<Head(sorted)>> \o InsertByDateDesc(Tail(sorted), m)
       ELSE <<m>> \o sorted

\* [...ms].sort((a, b) => new Date(b.date) - new Date(a.date))
RECURSIVE SortByDateDesc(_)
SortByDateDesc(ms) ==
  IF ms = <<>> THEN <<>>
  ELSE InsertByDateDesc(SortByDateDesc(SubSeq(ms, 1, Len(ms) - 1)), ms[Len(ms)])

\* The loop of the streak: the matches from the head on whose outcome for
\* the player is isWin, up to the first one whose outcome is not.
RECURSIVE RunOf(_, _, _)
RunOf(sorted, id, isWin) ==
  IF sorted = <<>> \/ ((Head(sorted).winnerId = id) # isWin) THEN 0
  ELSE 1 + RunOf(Tail(sorted), id, isWin)

\* As if the streak were counted in the order of the list.
StreakUnsorted(ms, id) ==
  LET pm == playerMatches(ms, id)
  IN IF pm = <<>> THEN [currentStreak |-> 0, isWinningStreak |-> FALSE]
     ELSE [currentStreak |-> 1 + RunOf(Tail(pm), id, Head(pm).winnerId = id),
           isWinningStreak |-> Head(pm).winnerId = id]
Streak(ms, id) ==
  LET sortedMatches == SortByDateDesc(playerMatches(ms, id))
  IN IF sortedMatches = <<>> THEN [currentStreak |-> 0, isWinningStreak |-> FALSE]
     ELSE [currentStreak |-> 1 + RunOf(Tail(sortedMatches), id, Head(sortedMatches).winnerId = id),
           isWinningStreak |-> Head(sortedMatches).winnerId = id]

RECURSIVE TotalScore(_, _, _)
\* The scores of the player's side (own) or of the other side, summed.
TotalScore(pm, id, own) ==
  IF pm = <<>> THEN 0
  ELSE (IF (Head(pm).player1Id = id) = own THEN Head(pm).player1Score ELSE Head(pm).player2Score)
       + TotalScore(Tail(pm), id, own)

winLossRatio(wins, losses) ==
  IF losses > 0 THEN Ratio(RoundScaled(wins, losses, 100))
  ELSE IF wins > 0 THEN Infinity ELSE Ratio(0)

calculatePlayerStats(player, ms) ==
  LET pm == playerMatches(ms, player.id)
      wins == CountWins(ms, player.id)
      losses == Len(pm) - wins
      streak == Streak(ms, player.id)
  IN [matches |-> Len(pm),
      wins |-> wins,
      losses |-> losses,
      winPercentage |-> IF Len(pm) > 0 THEN RoundScaled(wins, Len(pm), 100) ELSE 0,
      currentStreak |-> streak.currentStreak,
      isWinningStreak |-> streak.isWinningStreak,
      avgScoreFor |-> IF Len(pm) > 0 THEN RoundScaled(TotalScore(pm, player.id, TRUE), Len(pm), 10) ELSE 0,
      avgScoreAgainst |-> IF Len(pm) > 0 THEN RoundScaled(TotalScore(pm, player.id, FALSE), Len(pm), 10) ELSE 0,
      winLossRatio |-> winLossRatio(wins, losses)]

\* The matches a list is made of: p1 against p2 on every date, won by either
\* (2:1), and a match of p2 and p3 that names p4 its winner.
PlayedMatches ==
  {[player1Id |-> "p1", player2Id |-> "p2", winnerId |-> w,
    player1Score |-> IF w = "p1" THEN 2 ELSE 1,
    player2Score |-> IF w = "p2" THEN 2 ELSE 1, date |-> d] : w \in {"p1", "p2"}, d \in 1..MaxDate}

\* The lists of at most n matches of a set, each match with its position as id.
Numbered(ms) == [i \in 1..Len(ms) |-> [id |-> i] @@ ms[i]]
ListsOf(S, n) == {Numbered(l) : l \in UNION {[1..k -> S] : k \in 0..n}}

PlayerStatsInputs ==
  {[player |-> p, matches |-> l] :
     p \in {[id |-> q, name |-> "A"] : q \in {"p1", "p2", "p4"}},
     l \in ListsOf(PlayedMatches
                     \cup {[player1Id |-> "p2", player2Id |-> "p3", winnerId |-> "p4",
                            player1Score |-> 2, player2Score |-> 1, date |-> 1]}, MaxMatches)}

\* A function of js/stats.js is called with an input; the call returns.
StatsInit(op, inputs) ==
  /\ rooms = {}
  /\ players = {}
  /\ matches = {}
  /\ settings = {}
  /\ now = 1
  /\ dr = IdleDr
  /\ last \in {Call(op, "pending", arg, None) : arg \in inputs}
  /\ ui = InitUi

Called(op) == last.op = op /\ last.status = "pending"

CalculatePlayerStats ==
  /\ Called("calculatePlayerStats")
  /\ last' = Call("calculatePlayerStats", "resolved", last.arg,
                  calculatePlayerStats(last.arg.player, last.arg.matches))
  /\ UNCHANGED <<storeVars, now, dr, ui>>

SpecPlayerStats == StatsInit("calculatePlayerStats", PlayerStatsInputs) /\ [][CalculatePlayerStats]_vars


(***************************************************************************)
(* The leaderboard.                                                        *)
(***************************************************************************)
\* As if the leaderboard were sorted by wins and matches alone.
CompareByWins(a, b) ==
  IF b.wins # a.wins THEN b.wins - a.wins
  ELSE a.matches - b.matches
\* The comparator of the leaderboard: negative when a goes before b.
Compare(a, b) ==
  IF b.winPercentage # a.winPercentage THEN b.winPercentage - a.winPercentage
  ELSE IF b.wins # a.wins THEN b.wins - a.wins
  ELSE a.matches - b.matches

RECURSIVE InsertEntry(_, _)
InsertEntry(sorted, e) ==
  IF sorted = <<>> THEN <<e>>
  ELSE IF Compare(Head(sorted), e) <= 0
       THEN <<Head(sorted)>> \o InsertEntry(Tail(sorted), e)
       ELSE <<e>> \o sorted

RECURSIVE SortEntries(_)
SortEntries(es) ==
  IF es = <<>> THEN <<>>
  ELSE InsertEntry(SortEntries(SubSeq(es, 1, Len(es) - 1)), es[Len(es)])

LeaderboardEntry(player, ms) ==
  LET stats == calculatePlayerStats(player, ms)
  IN [id |-> player.id, name |-> player.name,
      matches |-> stats.matches, wins |-> stats.wins, losses |-> stats.losses,
      winPercentage |-> stats.winPercentage,
      currentStreak |-> stats.currentStreak, isWinningStreak |-> stats.isWinningStreak]

generateLeaderboardData(ps, ms) ==
  SortEntries([i \in 1..Len(ps) |-> LeaderboardEntry(ps[i], ms)])

\* The matches of a league of three players, each pair won by either.
LeagueMatches ==
  {[player1Id |-> pair[1], player2Id |-> pair[2], winnerId |-> pair[k],
    player1Score |-> IF k = 1 THEN 2 ELSE 1,
    player2Score |-> IF k = 2 THEN 2 ELSE 1, date |-> 1] : pair \in {<<"p1", "p2">>, <<"p1", "p3">>, <<"p2", "p3">>}, k \in {1, 2}}
\* The players in every order, and every part of them.
PlayerLists ==
  {l \in UNION {[1..k -> {[id |-> p, name |-> "A"] : p \in {"p1", "p2", "p3"}}] : k \in 0..3} :
     \A i, j \in 1..Len(l) : l[i] = l[j] => i = j}
LeaderboardInputs ==
  {[players |-> ps, matches |-> l] : ps \in PlayerLists, l \in ListsOf(LeagueMatches, MaxMatches)}

GenerateLeaderboardData ==
  /\ Called("generateLeaderboardData")
  /\ last' = Call("generateLeaderboardData", "resolved", last.arg,
                  [entries |-> generateLeaderboardData(last.arg.players, last.arg.matches)])
  /\ UNCHANGED <<storeVars, now, dr, ui>>

SpecLeaderboard == StatsInit("generateLeaderboardData", LeaderboardInputs) /\ [][GenerateLeaderboardData]_vars


(***************************************************************************)
(* The match activity.  A day has TicksPerDay clock values; the day string *)
(* of toLocaleDateString names the day of a date and drops the time, and   *)
(* new Date(day) is the first clock value of that day (the M/D/YYYY string *)
(* of the en-US locale, which Date parses back).                           *)
(***************************************************************************)
TicksPerDay == 2
toLocaleDateString(t) == [day |-> (t - 1) \div TicksPerDay + 1]
DateOfDay(day) == (day.day - 1) * TicksPerDay + 1

\* matchesByDay as the array Object.entries returns: a day string is a key
\* from the first match of the day on, in the order the keys were added.
RECURSIVE matchesByDay(_)
matchesByDay(ms) ==
  IF ms = <<>> THEN <<>>
  ELSE LET byDay == matchesByDay(SubSeq(ms, 1, Len(ms) - 1))
           day == toLocaleDateString(ms[Len(ms)].date)
       IN IF \E i \in 1..Len(byDay) : byDay[i].day = day
          THEN [i \in 1..Len(byDay) |->
                  IF byDay[i].day = day THEN [byDay[i] EXCEPT !.count = @ + 1] ELSE byDay[i]]
          ELSE Append(byDay, [day |-> day, count |-> 1])

RECURSIVE InsertByDateAsc(_, _)
InsertByDateAsc(sorted, e) ==
  IF sorted = <<>> THEN <<e>>
  ELSE IF Head(sorted).date <= e.date
       THEN <<Head(sorted)>> \o InsertByDateAsc(Tail(sorted), e)
       ELSE <<e>> \o sorted

\* activityData.sort((a, b) => a.date - b.date)
RECURSIVE SortByDateAsc(_)
SortByDateAsc(es) ==
  IF es = <<>> THEN <<>>
  ELSE InsertByDateAsc(SortByDateAsc(SubSeq(es, 1, Len(es) - 1)), es[Len(es)])

\* array.slice(-limit): a negative start counts from the end, and -0 is 0,
\* the start of the array.
SliceFromEnd(a, limit) ==
  LET start == IF limit = 0 THEN 0
               ELSE IF Len(a) - limit < 0 THEN 0 ELSE Len(a) - limit
  IN SubSeq(a, start + 1, Len(a))

generateMatchActivityData(ms, limit) ==
  LET byDay == matchesByDay(ms)
      activityData == [i \in 1..Len(byDay) |->
                         [day |-> byDay[i].day, count |-> byDay[i].count, date |-> DateOfDay(byDay[i].day)]]
  IN SliceFromEnd(SortByDateAsc(activityData), limit)

\* Matches on every clock value of MaxDate days, and the limits: none of the
\* days, some, and the default of the parameter.
ActivityMatches ==
  {[player1Id |-> "p1", player2Id |-> "p2", winnerId |-> "p1",
    player1Score |-> 2, player2Score |-> 1, date |-> d] : d \in 1..(TicksPerDay * MaxDate)}
ActivityInputs ==
  {[matches |-> l, limit |-> n] : l \in ListsOf(ActivityMatches, MaxMatches), n \in {0, 1, 2, 10}}

GenerateMatchActivityData ==
  /\ Called("generateMatchActivityData")
  /\ last' = Call("generateMatchActivityData", "resolved", last.arg,
                  [entries |-> generateMatchActivityData(last.arg.matches, last.arg.limit)])
  /\ UNCHANGED <<storeVars, now, dr, ui>>

SpecActivity == StatsInit("generateMatchActivityData", ActivityInputs) /\ [][GenerateMatchActivityData]_vars


(***************************************************************************)
(* Head to head.                                                           *)
(***************************************************************************)
\* null
Null == [null |-> TRUE]

\* The matches between the two players, either way round.
headToHeadMatches(player1, player2, ms) ==
  LET Test(m) == \/ m.player1Id = player1.id /\ m.player2Id = player2.id
                 \/ m.player1Id = player2.id /\ m.player2Id = player1.id
  IN SelectSeq(ms, Test)

\* match.winnerId === player1.id ? player1 : player2
WinnerOfTwo(m, player1, player2) == IF m.winnerId = player1.id THEN player1 ELSE player2

\* The loop of the streak: the matches from the head on that currentWinner
\* gives to the streak holder.
RECURSIVE HeldBy(_, _, _, _)
HeldBy(sorted, player1, player2, holder) ==
  IF sorted = <<>> \/ WinnerOfTwo(Head(sorted), player1, player2).id # holder.id THEN 0
  ELSE 1 + HeldBy(Tail(sorted), player1, player2, holder)

calculateHeadToHead(player1, player2, ms) ==
  LET hm == headToHeadMatches(player1, player2, ms)
      WonBy1(m) == m.winnerId = player1.id
      WonBy2(m) == m.winnerId = player2.id
      sortedMatches == SortByDateDesc(hm)
      streakHolder == WinnerOfTwo(Head(sortedMatches), player1, player2)
  IN [totalMatches |-> Len(hm),
      player1Wins |-> Len(SelectSeq(hm, WonBy1)),
      player2Wins |-> Len(SelectSeq(hm, WonBy2)),
      player1AvgScore |-> IF Len(hm) > 0 THEN RoundScaled(TotalScore(hm, player1.id, TRUE), Len(hm), 10) ELSE 0,
      player2AvgScore |-> IF Len(hm) > 0 THEN RoundScaled(TotalScore(hm, player1.id, FALSE), Len(hm), 10) ELSE 0,
      currentStreak |-> IF Len(hm) > 0
                        THEN 1 + HeldBy(Tail(sortedMatches), player1, player2, streakHolder)
                        ELSE 0,
      streakHolder |-> IF Len(hm) > 0
                       THEN [id |-> streakHolder.id, name |-> streakHolder.name]
                       ELSE Null]

\* Matches of p1 and p2, either way round, on two dates, won by either or
\* naming p3 the winner, and a match of p1 and p3.
DuelMatches ==
  {[player1Id |-> pair[1], player2Id |-> pair[2], winnerId |-> w,
    player1Score |-> IF w = pair[2] THEN 1 ELSE 2,
    player2Score |-> IF w = pair[2] THEN 2 ELSE 1, date |-> d] :
     pair \in {<<"p1", "p2">>, <<"p2", "p1">>}, w \in {"p1", "p2", "p3"}, d \in {1, 2}}
  \cup {[player1Id |-> "p1", player2Id |-> "p3", winnerId |-> "p1",
         player1Score |-> 2, player2Score |-> 1, date |-> 2]}
HeadToHeadInputs ==
  {[player1 |-> [id |-> pair[1], name |-> pair[1]], player2 |-> [id |-> pair[2], name |-> pair[2]], matches |-> l] :
     pair \in {<<"p1", "p2">>, <<"p2", "p1">>}, l \in ListsOf(DuelMatches, MaxMatches - 1)}

CalculateHeadToHead ==
  /\ Called("calculateHeadToHead")
  /\ last' = Call("calculateHeadToHead", "resolved", last.arg,
                  calculateHeadToHead(last.arg.player1, last.arg.player2, last.arg.matches))
  /\ UNCHANGED <<storeVars, now, dr, ui>>

SpecHeadToHead == StatsInit("calculateHeadToHead", HeadToHeadInputs) /\ [][CalculateHeadToHead]_vars


(***************************************************************************)
(* Imports that fail part-way: bundles with a record that has no id, in    *)
(* each of the four collections, between records that have one.            *)
(***************************************************************************)
PartialBundles ==
  { [version |-> version, rooms |-> <<BRoom, BRoomNoId, BRoomBackdated>>, players |-> <<BPlayer>>],
    Exported(<<BRoom>>, <<BPlayer, [roomId |-> "r1", name |-> "A"], BPlayerOther>>, <<BMatch>>, <<BSetting>>),
    Exported(<<BRoom>>, <<BPlayer>>, <<[roomId |-> "r1"], BMatch>>, <<BSetting>>),
    Exported(<<BRoom>>, <<BPlayer>>, <<BMatch>>, <<[value |-> "r1"], BSetting>>),
    Exported(<<BRoomBackdated>>, <<BPlayerOther>>, <<BMatchSelf>>, <<>>) }

NextPartial ==
  \/ \E data \in PartialBundles : HandleImportData(data)
  \/ \E data \in PartialBundles : ImportData(data)
  \/ \E id \in RoomIds : DeleteRoom(id)
  \/ DrRoomDeleted
  \/ DrPlayersRead
  \/ DrPlayerDeleted
  \/ DrMatchesRead
  \/ DrMatchDeleted
  \/ SaveSetting("lastRoomId", "r2")

SpecPartial == Init /\ [][NextPartial]_vars


(***************************************************************************)
(* DB.getPlayerStats, and the statistics of js/stats.js over the matches   *)
(* of the player's room as getMatchesInRoom returns them.                  *)
(***************************************************************************)
getMatchesInRoom(st, roomId) == InKeyOrder(ByIndex(st.matches, "roomId", roomId))

\* The statistics DB.getPlayerStats computes from getPlayerMatches.
getPlayerStats(st, playerId) ==
  LET ms == getPlayerMatches(st, playerId)
      IsWin(m) == m.winnerId = playerId
      wins == Len(SelectSeq(ms, IsWin))
      sortedMatches == SortByDateDesc(ms)
  IN [matches |-> Len(ms),
      wins |-> wins,
      losses |-> Len(ms) - wins,
      winPercentage |-> IF Len(ms) > 0 THEN RoundScaled(wins, Len(ms), 100) ELSE 0,
      currentStreak |-> IF Len(ms) > 0
                        THEN 1 + RunOf(Tail(sortedMatches), playerId, Head(sortedMatches).winnerId = playerId)
                        ELSE 0,
      isWinningStreak |-> IF Len(ms) > 0 THEN Head(sortedMatches).winnerId = playerId ELSE FALSE]

GetPlayerStats(playerId) ==
  /\ Idle
  /\ last' = IF HasKey(players, playerId)
             THEN Call("getPlayerStats", "resolved", [id |-> playerId], getPlayerStats(Store, playerId))
             ELSE Call("getPlayerStats", "Player not found", [id |-> playerId], None)
  /\ UNCHANGED <<storeVars, now, dr, ui>>

\* Matches of p1 and p2, either way round and won by either, in either room.
StatsMatchInputs ==
  {[roomId |-> r, player1Id |-> pair[1], player2Id |-> pair[2],
    player1Score |-> s[1], player2Score |-> s[2], notes |-> ""] :
     r \in RoomIds, pair \in {<<"p1", "p2">>, <<"p2", "p1">>}, s \in {<<"2", "1">>, <<"1", "2">>}}

NextDbStats ==
  \/ Tick
  \/ \E id \in generateId({"p1"}), d \in PlayerPerRoom : CreatePlayer(id, d, now)
  \/ \E id \in generateId(MatchIds), d \in StatsMatchInputs : CreateMatch(id, d)
  \/ \E id \in PlayerIds : GetPlayerStats(id)

SpecDbStats == Init /\ [][NextDbStats]_vars


(***************************************************************************)
(* The page (js/ui.js): the room in use, the tabs and the new-match form.  *)
(* A handler runs up to its first await in the step of its event; a read   *)
(* it awaits completes in a later step.  The loading indicator lies over   *)
(* the page: while it is shown the user reaches nothing below it.  One     *)
(* loadRoom is in flight at a time.                                        *)
(***************************************************************************)
\* The reads of populatePlayerSelectors in flight at one time.
MaxReads == 2

\* populatePlayerSelectors up to its await: getPlayersInRoom is called for
\* the room that is current now.
populatePlayerSelectors(u) ==
  IF u.currentRoom = "" THEN u ELSE [u EXCEPT !.pop = Append(@, u.currentRoom)]

setActiveTab(u, tabName) ==
  IF tabName = "new-match"
  THEN populatePlayerSelectors([u EXCEPT !.currentTab = tabName])
  ELSE [u EXCEPT !.currentTab = tabName]

\* What the user can reach: the page when the loading indicator is hidden,
\* the tabs and the forms of the room content when that is shown as well.
PageFree == ~ui.overlay
ContentFree == ~ui.overlay /\ ui.content

\* loadRoom up to its first await: showLoading, then getRoom is called.
LoadRoomCalled(u, roomId) == [u EXCEPT !.overlay = TRUE, !.lrPc = "getRoom", !.lrRoom = roomId]

\* A click on a tab button.
HandleTabChange(tabName) ==
  /\ ContentFree
  /\ Len(ui.pop) < MaxReads
  /\ ui' = setActiveTab(ui, tabName)
  /\ last' = Call("handleTabChange", "resolved", [tab |-> tabName], None)
  /\ UNCHANGED <<storeVars, now, dr>>

\* The user picks the two players of the new-match form.
SelectPlayers(a, b) ==
  /\ ContentFree
  /\ ui.currentTab = "new-match"
  /\ a \in ui.options /\ b \in ui.options
  /\ ui' = [ui EXCEPT !.sel1 = a, !.sel2 = b]
  /\ last' = Call("selectPlayers", "resolved", [player1Id |-> a, player2Id |-> b], None)
  /\ UNCHANGED <<storeVars, now, dr>>

\* The room selector changes to a room.
HandleRoomChange(roomId) ==
  /\ PageFree
  /\ ui.lrPc = "idle"
  /\ HasKey(rooms, roomId)
  /\ ui' = LoadRoomCalled(ui, roomId)
  /\ last' = Call("handleRoomChange", "resolved", [id |-> roomId], None)
  /\ UNCHANGED <<storeVars, now, dr>>

\* The create-room form: the room is created, loadRoom is called and not
\* awaited, and hideLoading follows at once.
HandleCreateRoomSubmit(id, roomData) ==
  /\ PageFree
  /\ ui.lrPc = "idle"
  /\ LET room == NewRoom(id, roomData, now, now) IN
       /\ rooms' = StoreAdd(rooms, room)
       /\ ui' = IF AddOk(rooms, room)
                THEN [LoadRoomCalled(ui, id) EXCEPT !.overlay = FALSE]
                ELSE ui
       /\ last' = Call("handleCreateRoomSubmit", IF AddOk(rooms, room) THEN "resolved" ELSE "ConstraintError",
                       [id |-> id], None)
  /\ UNCHANGED <<players, matches, settings, now, dr>>

\* loadRoom: getRoom answers; the room becomes the current room.
LoadRoomGotRoom ==
  /\ ui.lrPc = "getRoom"
  /\ ui' = IF HasKey(rooms, ui.lrRoom)
           THEN [ui EXCEPT !.currentRoom = ui.lrRoom, !.lrPc = "saveSetting"]
           ELSE [ui EXCEPT !.overlay = FALSE, !.lrPc = "idle"]
  /\ last' = Call("loadRoom", "pending", [id |-> ui.lrRoom], None)
  /\ UNCHANGED <<storeVars, now, dr>>

\* loadRoom: saveSetting answers; the room content is shown and the players,
\* the matches and the statistics are read.
LoadRoomSaved ==
  /\ ui.lrPc = "saveSetting"
  /\ settings' = StorePut(settings, [id |-> "lastRoomId", value |-> ui.lrRoom, updatedAt |-> now])
  /\ ui' = [ui EXCEPT !.content = TRUE, !.lrPc = "loadPlayers"]
  /\ last' = Call("loadRoom", "pending", [id |-> ui.lrRoom], None)
  /\ UNCHANGED <<rooms, players, matches, now, dr>>

\* loadRoom: the reads have answered; setActiveTab(currentTab) and
\* hideLoading.  populatePlayerSelectors is not awaited.
LoadRoomLoaded ==
  /\ ui.lrPc = "loadPlayers"
  /\ Len(ui.pop) < MaxReads
  /\ ui' = [setActiveTab(ui, ui.currentTab) EXCEPT !.overlay = FALSE, !.lrPc = "idle"]
  /\ last' = Call("loadRoom", "resolved", [id |-> ui.lrRoom], None)
  /\ UNCHANGED <<storeVars, now, dr>>

\* populatePlayerSelectors: getPlayersInRoom answers; the options are replaced
\* and with them the selection.
PlayerSelectorsPopulated ==
  /\ ui.pop # <<>>
  /\ ui' = [ui EXCEPT !.options = {p.id : p \in ByIndex(players, "roomId", Head(ui.pop))},
                      !.sel1 = "", !.sel2 = "", !.pop = Tail(@)]
  /\ last' = Call("populatePlayerSelectors", "resolved", [id |-> Head(ui.pop)], None)
  /\ UNCHANGED <<storeVars, now, dr>>

\* The add-player form of the Players tab.
HandleAddPlayerSubmit(id, playerData) ==
  /\ ContentFree
  /\ ui.currentRoom # ""
  /\ ui.currentTab = "players"
  /\ LET player == NewPlayer(id, [playerData EXCEPT !.roomId = ui.currentRoom], now, now) IN
       /\ players' = StoreAdd(players, player)
       /\ last' = Call("handleAddPlayerSubmit", IF AddOk(players, player) THEN "resolved" ELSE "ConstraintError",
                       [id |-> id], None)
  /\ UNCHANGED <<rooms, matches, settings, now, dr, ui>>

\* The new-match form: the checks, then DB.createMatch with the id of the
\* current room and the values of the two selectors; the form is reset.
HandleMatchSubmit(id) ==
  /\ ContentFree
  /\ ui.currentTab = "new-match"
  /\ ui.currentRoom # ""
  /\ ui.sel1 # "" /\ ui.sel2 # ""
  /\ ui.sel1 # ui.sel2
  /\ LET match == NewMatch(id, [roomId |-> ui.currentRoom, player1Id |-> ui.sel1, player2Id |-> ui.sel2,
                                player1Score |-> "2", player2Score |-> "1", notes |-> ""], now) IN
       /\ matches' = StoreAdd(matches, match)
       /\ ui' = IF AddOk(matches, match) THEN [ui EXCEPT !.sel1 = "", !.sel2 = ""] ELSE ui
       /\ last' = Call("handleMatchSubmit", IF AddOk(matches, match) THEN "resolved" ELSE "ConstraintError",
                       [id |-> id], IF AddOk(matches, match) THEN match ELSE None)
  /\ UNCHANGED <<rooms, players, settings, now, dr>>

NextUi ==
  \/ \E id \in generateId(RoomIds), d \in OneRoomInput : HandleCreateRoomSubmit(id, d)
  \/ \E id \in RoomIds : HandleRoomChange(id)
  \/ LoadRoomGotRoom
  \/ LoadRoomSaved
  \/ LoadRoomLoaded
  \/ \E t \in {"players", "new-match"} : HandleTabChange(t)
  \/ PlayerSelectorsPopulated
  \/ \E a \in PlayerIds, b \in PlayerIds : SelectPlayers(a, b)
  \/ \E id \in generateId(PlayerIds), d \in OnePlayerInput : HandleAddPlayerSubmit(id, d)
  \/ \E id \in generateId(MatchIds) : HandleMatchSubmit(id)

SpecUi == Init /\ [][NextUi]_vars


(***************************************************************************)
(* The claims.                                                             *)
(***************************************************************************)
InRoom(store, roomId) == {r \in store : Has(r, "roomId") /\ r.roomId = roomId}

\* C1: when deleteRoom(R) has resolved, the rooms collection holds no record
\* with id R and the players and matches collections hold no record whose
\* roomId is R, however many players and matches the room had.
C1_CascadeRemovesRoom ==
  (last.op = "deleteRoom" /\ last.status = "resolved") =>
    /\ ~HasKey(rooms, last.arg.id)
    /\ InRoom(players, last.arg.id) = {}
    /\ InRoom(matches, last.arg.id) = {}

\* A cascade resolved that deleted two players and two matches.
C1_Witness ==
  /\ last.op = "deleteRoom" /\ last.status = "resolved"
  /\ last.res.players = 2 /\ last.res.matches = 2

WithoutUpdatedAt(S) == {[f \in DOMAIN r \ {"updatedAt"} |-> r[f]] : r \in S}

\* C2: importing the bundle exportAllData returns for the store into an empty
\* store succeeds and gives a store with the same records by id in rooms,
\* players, matches and settings, equal in every field but updatedAt.
C2_RoundTrip ==
  LET data == exportAllData(Store, now)
      st == DbImportStore(EmptyStore, data)
  IN /\ DbImportStatus(data) = "resolved"
     /\ \A c \in {"rooms", "players", "matches", "settings"} :
          WithoutUpdatedAt(st[c]) = WithoutUpdatedAt(Store[c])

\* C3: in every reachable state every match record has a winnerId that is its
\* player1Id or its player2Id.
C3_WinnerIsParticipant ==
  \A m \in matches :
    /\ Has(m, "winnerId") /\ Has(m, "player1Id") /\ Has(m, "player2Id")
    /\ m.winnerId \in {m.player1Id, m.player2Id}

\* C4: the winnerId of a match stored by createMatch is the participant whose
\* score is strictly greater than the other participant's.
C4_WinnerHasGreaterScore ==
  (last.op = "createMatch" /\ last.status = "resolved") =>
    /\ last.res \in matches
    /\ \/ last.res.winnerId = last.res.player1Id /\ last.res.player1Score > last.res.player2Score
       \/ last.res.winnerId = last.res.player2Id /\ last.res.player2Score > last.res.player1Score

UniqueIds(store) == \A a \in store : \A b \in store : a.id = b.id => a = b

CreateKeyInUse ==
  \/ last'.op = "createRoom" /\ HasKey(rooms, last'.arg.id)
  \/ last'.op = "createPlayer" /\ HasKey(players, last'.arg.id)
  \/ last'.op = "createMatch" /\ HasKey(matches, last'.arg.id)

\* C5: no two records of a collection ever share an id, and a create whose
\* generated id is in use in its collection fails and changes no record.
C5_UniqueIds ==
  [][/\ UniqueIds(rooms') /\ UniqueIds(players') /\ UniqueIds(matches') /\ UniqueIds(settings')
     /\ CreateKeyInUse => (last'.status = "ConstraintError" /\ UNCHANGED storeVars)]_vars

\* A create drew the id of a stored room and failed.
C5_Witness ==
  /\ last.op = "createRoom" /\ last.status = "ConstraintError"
  /\ HasKey(rooms, last.arg.id)
  /\ Cardinality(rooms) = 2 /\ players # {} /\ matches # {} /\ settings # {}

UpdateOfMissing ==
  \/ last'.op = "updateRoom" /\ ~HasKey(rooms, last'.arg.id)
  \/ last'.op = "updatePlayer" /\ ~HasKey(players, last'.arg.id)

\* C6: updateRoom / updatePlayer with an id that is not in the collection
\* rejects with a not-found error and leaves the store as it was.
C6_UpdateNotFound ==
  [][UpdateOfMissing => (last'.status = "NotFound" /\ UNCHANGED storeVars)]_vars

\* An updateRoom of an id that is not stored, beside a room that is.
C6_Witness ==
  /\ last.op = "updateRoom" /\ last.status = "NotFound"
  /\ ~HasKey(rooms, last.arg.id) /\ rooms # {} /\ players # {}

\* The record new overrides the record old with the partial, at time t.
Overrides(new, old, partial, t) ==
  /\ DOMAIN new = DOMAIN old \cup DOMAIN partial \cup {"updatedAt"}
  /\ \A f \in DOMAIN new :
       new[f] = IF f = "updatedAt" THEN t ELSE IF f \in DOMAIN partial THEN partial[f] ELSE old[f]

\* The update of a stored record in store, leaving store2.
UpdateMerges(store, store2) ==
  /\ last'.status = "resolved"
  /\ Overrides(last'.res, StoreGet(store, last'.arg.id), last'.arg, now)
  /\ store2 = (store \ {StoreGet(store, last'.arg.id)}) \cup {last'.res}

\* C7: a successful update persists and returns the stored record overridden
\* by the fields of the partial, with updatedAt set to the time of the update;
\* no other record changes.
C7_UpdateMerges ==
  [][/\ (last'.op = "updateRoom" /\ HasKey(rooms, last'.arg.id)) =>
          (UpdateMerges(rooms, rooms') /\ UNCHANGED <<players, matches, settings>>)
     /\ (last'.op = "updatePlayer" /\ HasKey(players, last'.arg.id)) =>
          (UpdateMerges(players, players') /\ UNCHANGED <<rooms, matches, settings>>)]_vars

\* A player renamed earlier has its nickname alone updated, at a later time.
C7_Witness ==
  /\ last.op = "updatePlayer" /\ last.status = "resolved"
  /\ ~Has(last.arg, "name") /\ Has(last.res, "name") /\ Has(last.res, "createdAt")
  /\ last.res.name = "C" /\ last.res.nickname = "m"
  /\ last.res.updatedAt > last.res.createdAt
  /\ last.res \in players /\ rooms # {}

Stamped(r) == Has(r, "createdAt") /\ Has(r, "updatedAt")

UpdateKeepsOrder(store) ==
  (last'.status = "resolved" /\ Stamped(StoreGet(store, last'.arg.id))) =>
    last'.res.updatedAt >= StoreGet(store, last'.arg.id).updatedAt

\* C8: every stored room and player that has both time stamps has
\* updatedAt >= createdAt, and a successful update leaves updatedAt no earlier
\* than it was.
C8_Timestamps ==
  [][/\ \A r \in rooms' \cup players' : Stamped(r) => r.updatedAt >= r.createdAt
     /\ (last'.op = "updateRoom" /\ HasKey(rooms, last'.arg.id)) => UpdateKeepsOrder(rooms)
     /\ (last'.op = "updatePlayer" /\ HasKey(players, last'.arg.id)) => UpdateKeepsOrder(players)]_vars

\* C9: a delete resolves and removes the record of the id and nothing else;
\* when the id is not in the collection (as on the second of two deletes in
\* succession) the store is left as it was.
C9_DeleteIdempotent ==
  [][/\ last'.op = "deletePlayer" =>
          /\ last'.status = "resolved"
          /\ players' = {r \in players : r.id # last'.arg.id}
          /\ UNCHANGED <<rooms, matches, settings>>
          /\ ~HasKey(players, last'.arg.id) => UNCHANGED storeVars
     /\ last'.op = "deleteMatch" =>
          /\ last'.status = "resolved"
          /\ matches' = {r \in matches : r.id # last'.arg.id}
          /\ UNCHANGED <<rooms, players, settings>>
          /\ ~HasKey(matches, last'.arg.id) => UNCHANGED storeVars]_vars

\* A delete of a player id that was not in use resolved, beside other players.
C9_Witness ==
  /\ last.op = "deletePlayer" /\ last.status = "resolved" /\ ~last.arg.existed
  /\ players # {} /\ matches # {}

\* C10: when the bundle fails validateImportData, the import the application
\* invokes rejects and no record of any collection is created or changed.
C10_ImportValidatesFirst ==
  [][(last'.op = "handleImportData" /\ validateImportData(last'.arg.data) # NoError) =>
       (last'.status # "resolved" /\ UNCHANGED storeVars)]_vars

Collections == {"rooms", "players", "matches", "settings"}
ImportResolved == last.op \in {"importData", "handleImportData"} /\ last.status = "resolved"

\* The records a bundle holds for a collection, a room given as room included.
Present(data, c) ==
  (IF Has(data, c) THEN data[c] ELSE <<>>)
    \o (IF c = "rooms" /\ Has(data, "room") THEN <<data.room>> ELSE <<>>)

\* C11 as stated: after a successful import every room (of rooms or given as
\* room), player, match and setting of the bundle is in the store under its
\* id with exactly the bundle's field values (the settings aside when
\* UI.handleImportData goes on to load a room, which saves lastRoomId).
C11_ImportStoresEvery ==
  ImportResolved =>
    \A c \in Collections : \A i \in 1..Len(Present(last.arg.data, c)) :
      (c = "settings" /\ last.op = "handleImportData") \/ Present(last.arg.data, c)[i] \in Store[c]

\* The records DB.importData takes from a bundle for a collection: room only
\* when there is no rooms array.
Taken(data, c) ==
  IF Has(data, c) THEN data[c]
  ELSE IF c = "rooms" /\ Has(data, "room") THEN <<data.room>> ELSE <<>>

\* The last record of the sequence that has the id of its i-th record.
LastOfId(seq, i) ==
  seq[CHOOSE j \in i..Len(seq) : seq[j].id = seq[i].id /\ \A k \in (j + 1)..Len(seq) : seq[k].id # seq[i].id]

\* C11 (amended): after a successful import each collection holds, under every
\* id among the records the import takes from the bundle (the rooms array, or
\* room when there is no rooms array; players; matches; settings), exactly the
\* last record of the bundle with that id, replaced as a whole and not merged;
\* the lastRoomId setting is the one of the room UI.handleImportData then loads.
C11_ImportUpserts ==
  ImportResolved =>
    \A c \in Collections : \A i \in 1..Len(Taken(last.arg.data, c)) :
      \/ c = "settings" /\ last.op = "handleImportData" /\ Taken(last.arg.data, c)[i].id = "lastRoomId"
      \/ LastOfId(Taken(last.arg.data, c), i) \in Store[c]

\* An import resolved whose bundle has two rooms of one id, the later one with
\* fewer fields: the room stored is the later one as it is in the bundle.
C11_Witness ==
  /\ ImportResolved /\ last.op = "importData"
  /\ last.arg.data = [version |-> version, rooms |-> <<BRoom, BRoomRenamed>>]
  /\ BRoomRenamed \in rooms /\ BRoom \notin rooms

StoreNext == [rooms |-> rooms', players |-> players', matches |-> matches', settings |-> settings']
ImportStep == last'.op \in {"importData", "handleImportData"}
\* The ids of the records a bundle holds for a collection.
BundleIds(data, c) ==
  {Present(data, c)[i].id : i \in {j \in 1..Len(Present(data, c)) : Has(Present(data, c)[j], "id")}}

\* C12: an import, successful or failed, removes no record: every id of a
\* collection is still in it afterwards, and a record whose id is not in the
\* bundle is unchanged (the lastRoomId setting aside when UI.handleImportData
\* goes on to load a room).
C12_ImportNeverRemoves ==
  [][ImportStep =>
       \A c \in Collections : \A r \in Store[c] :
         /\ HasKey(StoreNext[c], r.id)
         /\ r.id \notin BundleIds(last'.arg.data, c) =>
              \/ r \in StoreNext[c]
              \/ c = "settings" /\ r.id = "lastRoomId" /\ last'.op = "handleImportData"]_vars

\* An import failed part-way at a room without id: the room before it is
\* written, and a player and a match that the bundle does not hold remain.
C12_Witness ==
  /\ last.op = "handleImportData" /\ last.status = "DataError"
  /\ BRoom \in rooms /\ BPlayerOther \in players /\ matches # {}

Validated == last.op = "importData"
NoVersion(data) == ~Has(data, "version")

\* C13 as stated: validate rejects every bundle that is not an object or has
\* no version with an error that names the missing version field.
C13_RejectsNamingVersion ==
  (Validated /\ (~IsObject(last.arg.data) \/ NoVersion(last.arg.data))) =>
    (last.status = "ValidationError" /\ last.res.field = "version")

\* C13 (amended): validate rejects a bundle that is not an object with an
\* error saying that the data must be an object, and an object without
\* version (the empty object among them) with an error that names the missing
\* version field, whatever its rooms, players and matches are.
C13_RejectsWithoutVersion ==
  Validated =>
    /\ ~IsObject(last.arg.data) =>
         (last.status = "ValidationError" /\ last.res = Error("Data must be an object", -1, ""))
    /\ (IsObject(last.arg.data) /\ NoVersion(last.arg.data)) =>
         (last.status = "ValidationError" /\ last.res = Error("Missing version", -1, "version"))

\* A bundle without version and without rooms, whose one match lacks roomId,
\* was rejected for its version, after an import had stored records.
C13_Witness ==
  /\ Validated /\ last.arg.data = [matches |-> <<BMatchBare>>]
  /\ last.res.field = "version" /\ rooms # {}

\* C14 as stated: for a bundle {version, matches: [m]} whose match at index 0
\* has an id but no roomId, validate cites match index 0 and the field roomId.
C14_CitesMatchOfBareBundle ==
  (/\ Validated /\ DOMAIN last.arg.data = {"version", "matches"}
   /\ Len(last.arg.data.matches) = 1
   /\ Has(last.arg.data.matches[1], "id") /\ ~Has(last.arg.data.matches[1], "roomId"))
  => last.res = Error("Match", 0, "roomId")

\* The fields validate requires of a match, in the order it looks for them.
MatchFields ==
  <<"id", "roomId", "player1Id", "player2Id", "player1Score", "player2Score", "winnerId", "date">>
\* The scores are tested against undefined; a date is a time of the clock.
Lacks(m, f) == ~Has(m, f) \/ (f \notin {"player1Score", "player2Score", "date"} /\ m[f] = "")
LacksSome(m) == \E k \in 1..Len(MatchFields) : Lacks(m, MatchFields[k])
FirstLacked(m) ==
  MatchFields[CHOOSE k \in 1..Len(MatchFields) :
                Lacks(m, MatchFields[k]) /\ \A j \in 1..(k - 1) : ~Lacks(m, MatchFields[j])]

\* The bundle has a version and rooms (or a room), and its rooms and players
\* pass the checks of validate.
PassesUpToMatches(data) ==
  /\ IsObject(data) /\ HasVersion(data)
  /\ Has(data, "rooms") \/ Has(data, "room")
  /\ Has(data, "rooms") => CheckRooms(data.rooms) = NoError
  /\ Has(data, "room") => MissingRoomField(data.room) = ""
  /\ Has(data, "players") => CheckPlayers(data.players) = NoError

\* C14 (amended): for a bundle that has a version and a rooms array or a
\* room, and whose rooms and players pass, validate cites the first match
\* that lacks a required field, by its index counted from 0, and the first
\* field it lacks: for {version, rooms, matches: [m]} with m having an id but
\* no roomId, match index 0 and the field roomId.
C14_CitesFirstOffendingMatch ==
  (Validated /\ PassesUpToMatches(last.arg.data) /\ Has(last.arg.data, "matches")) =>
    \A i \in 1..Len(last.arg.data.matches) :
      (LacksSome(last.arg.data.matches[i])
         /\ \A j \in 1..(i - 1) : ~LacksSome(last.arg.data.matches[j]))
      => (last.status = "ValidationError"
            /\ last.res = Error("Match", i - 1, FirstLacked(last.arg.data.matches[i])))

\* validate cited match index 0 and roomId for a bundle with a room and one
\* match that has only an id.
C14_Witness ==
  /\ Validated
  /\ last.arg.data = [version |-> version, rooms |-> <<BRoom>>, matches |-> <<BMatchBare>>]
  /\ last.res = Error("Match", 0, "roomId")

\* The records of a sequence, as a bag would count them: none twice.
NoRepeats(seq) == \A i \in 1..Len(seq) : \A j \in 1..Len(seq) : seq[i] = seq[j] => i = j
Records(seq) == {seq[i] : i \in 1..Len(seq)}

\* C15: exportAll returns every room, player, match and setting of the store,
\* each exactly once, whatever its roomId refers to, with version and
\* exportDate.
C15_ExportAllIsComplete ==
  LET data == exportAllData(Store, now) IN
    /\ data.version = version /\ data.exportDate = now
    /\ \A c \in Collections : Records(data[c]) = Store[c] /\ NoRepeats(data[c])

\* C16: for a stored room R, exportRoom(R) returns that room with exactly the
\* players whose roomId is R and exactly the matches whose roomId is R,
\* nothing of another room, and changes no record.
C16_ExportRoomIsScoped ==
  [][(last'.op = "exportRoomData" /\ HasKey(rooms, last'.arg.id)) =>
       /\ last'.status = "resolved"
       /\ last'.res.room \in rooms /\ last'.res.room.id = last'.arg.id
       /\ Records(last'.res.players) = InRoom(players, last'.arg.id)
       /\ Records(last'.res.matches) = InRoom(matches, last'.arg.id)
       /\ NoRepeats(last'.res.players) /\ NoRepeats(last'.res.matches)
       /\ last'.res.version = version /\ last'.res.exportDate = now
       /\ UNCHANGED storeVars]_vars

\* A room was exported with its player and its match while the other room
\* has a player and a match of its own.
C16_Witness ==
  /\ last.op = "exportRoomData" /\ last.status = "resolved"
  /\ Len(last.res.players) = 1 /\ Len(last.res.matches) = 1
  /\ Cardinality(players) = 2 /\ Cardinality(matches) = 2 /\ Cardinality(rooms) = 2

\* The matches that name the player as a participant or as the winner.
Naming(id) ==
  {m \in matches : \E f \in {"player1Id", "player2Id", "winnerId"} : Has(m, f) /\ m[f] = id}

\* C17: deletePlayer(id) removes the player record of that id only: the
\* matches that name the player remain, and the matches, rooms, settings and
\* every other player are unchanged.
C17_DeletePlayerKeepsMatches ==
  [][last'.op = "deletePlayer" =>
       /\ Naming(last'.arg.id) \subseteq matches'
       /\ matches' = matches /\ rooms' = rooms /\ settings' = settings
       /\ \A p \in players : p.id # last'.arg.id => p \in players'
       /\ players' \subseteq players
       /\ ~HasKey(players', last'.arg.id)]_vars

\* A stored player was deleted, and a match that names it as player 1 and as
\* the winner is still stored, beside another player.
C17_Witness ==
  /\ last.op = "deletePlayer" /\ last.status = "resolved" /\ last.arg.existed
  /\ \E m \in matches : Has(m, "winnerId") /\ m.player1Id = last.arg.id /\ m.winnerId = last.arg.id
  /\ players # {}

\* C18: in every reachable state every match has player1Id different from
\* player2Id.
C18_PlayersDiffer ==
  \A m \in matches : (Has(m, "player1Id") /\ Has(m, "player2Id")) => m.player1Id # m.player2Id

\* C19 as stated: once a match is stored under an id, the date of the record
\* stored under that id never changes, whatever the operation.
C19_DateNeverChanges ==
  [][\A m \in matches : \A n \in matches' :
       (m.id = n.id /\ Has(m, "date")) => (Has(n, "date") /\ n.date = m.date)]_vars

\* C19 (amended): the date of the record stored under a match id changes
\* only when an import whose bundle holds a match of that id replaces the
\* record; no create and no delete changes it.
C19_DateChangesOnlyByImport ==
  [][\A m \in matches : \A n \in matches' :
       (m.id = n.id /\ Has(m, "date")) =>
         \/ Has(n, "date") /\ n.date = m.date
         \/ ImportStep /\ m.id \in BundleIds(last'.arg.data, "matches")]_vars

\* A createMatch drew the id of a stored match of another date and failed:
\* the stored match has kept its date.
C19_Witness ==
  /\ last.op = "createMatch" /\ last.status = "ConstraintError"
  /\ \E m \in matches : m.id = last.arg.id /\ Has(m, "date") /\ m.date # now

\* The stored matches in which the player is player 1 or player 2.
TakesPart(id) ==
  {m \in matches : \E f \in {"player1Id", "player2Id"} : Has(m, f) /\ m[f] = id}

\* C20: getPlayerMatches(P) returns each stored match in which P is player1Id
\* or player2Id exactly once, also when P is both, and no other match.
C20_PlayerMatchesOnce ==
  (last.op = "getPlayerMatches" /\ last.status = "resolved") =>
    /\ Records(last.res.matches) = TakesPart(last.arg.id)
    /\ NoRepeats(last.res.matches)
    /\ Len(last.res.matches) = Cardinality(TakesPart(last.arg.id))

\* The matches of a player were read who is both players of one stored match
\* and player 1 of the other; a read of the other player would leave one out.
C20_Witness ==
  /\ last.op = "getPlayerMatches" /\ Len(last.res.matches) = 2
  /\ \E m \in matches : m.player1Id = last.arg.id /\ m.player2Id = last.arg.id
  /\ \E m \in matches : m.player1Id = last.arg.id /\ m.player2Id # last.arg.id


\* C21: the statistics of a player who takes part in no match of the list,
\* the empty list included, are all zero: matches, wins, losses,
\* winPercentage, currentStreak and winLossRatio.
C21_NoMatchesAllZero ==
  (last.op = "calculatePlayerStats" /\ last.status = "resolved"
   /\ \A i \in 1..Len(last.arg.matches) : ~Plays(last.arg.matches[i], last.arg.player.id))
  => /\ last.res.matches = 0
     /\ last.res.wins = 0
     /\ last.res.losses = 0
     /\ last.res.winPercentage = 0
     /\ last.res.currentStreak = 0
     /\ last.res.winLossRatio = Ratio(0)
\* The statistics of a player of none of the three matches of a list, each of
\* which names the player its winner.
C21_Witness ==
  /\ last.op = "calculatePlayerStats" /\ last.status = "resolved"
  /\ Len(last.arg.matches) = 3
  /\ \A i \in 1..3 : ~Plays(last.arg.matches[i], last.arg.player.id)
                     /\ last.arg.matches[i].winnerId = last.arg.player.id

\* The matches of the list of the last call that its player takes part in.
OwnMatches == {last.arg.matches[i] : i \in {j \in 1..Len(last.arg.matches) : Plays(last.arg.matches[j], last.arg.player.id)}}
\* The player of the last call won the match.
Won(m) == m.winnerId = last.arg.player.id
\* No two matches of the player have the same date.
DatesDiffer == \A m, n \in OwnMatches : m.date = n.date => m = n
Latest == CHOOSE m \in OwnMatches : \A n \in OwnMatches : n.date <= m.date

\* C22: for a player with at least one match, isWinningStreak says whether
\* the player won the match with the latest date, and currentStreak is the
\* number of matches, from the latest one back in date, that have the outcome
\* of the latest one and no match of another outcome after them.
C22_StreakFromLatest ==
  (last.op = "calculatePlayerStats" /\ last.status = "resolved"
   /\ OwnMatches # {} /\ DatesDiffer)
  => /\ last.res.isWinningStreak = Won(Latest)
     /\ last.res.currentStreak =
          Cardinality({m \in OwnMatches : \A n \in OwnMatches : n.date >= m.date => Won(n) = Won(Latest)})
\* Outcomes W, W, L, W from the oldest to the latest match, listed with the
\* latest match not first: a winning streak of 1.
C22_Witness ==
  /\ last.op = "calculatePlayerStats" /\ last.status = "resolved"
  /\ last.arg.player.id = "p1"
  /\ {<<m.date, m.winnerId>> : m \in OwnMatches} = {<<1, "p1">>, <<2, "p1">>, <<3, "p2">>, <<4, "p1">>}
  /\ Len(last.arg.matches) = 4
  /\ last.arg.matches[1].date = 2
  /\ last.res.currentStreak = 1
  /\ last.res.isWinningStreak

\* a may stand before b on the leaderboard.
RanksBefore(a, b) ==
  \/ a.winPercentage > b.winPercentage
  \/ a.winPercentage = b.winPercentage /\ a.wins > b.wins
  \/ a.winPercentage = b.winPercentage /\ a.wins = b.wins /\ a.matches <= b.matches

\* C23: the leaderboard has one entry per player it is given, and an entry
\* stands before another only if it has the greater win percentage, or the
\* same percentage and more wins, or the same of both and at most as many
\* matches.
C23_LeaderboardOrder ==
  (last.op = "generateLeaderboardData" /\ last.status = "resolved")
  => LET es == last.res.entries
         ps == last.arg.players
     IN /\ Len(es) = Len(ps)
        /\ \A i \in 1..Len(ps) : Cardinality({j \in 1..Len(es) : es[j].id = ps[i].id}) = 1
        /\ \A i, j \in 1..Len(es) : i < j => RanksBefore(es[i], es[j])
\* A player with 2 wins in 2 matches, given after a player with 2 wins in 3
\* matches, stands before that player.
C23_Witness ==
  /\ last.op = "generateLeaderboardData" /\ last.status = "resolved"
  /\ Len(last.arg.players) = 2
  /\ Len(last.res.entries) = 2
  /\ last.res.entries[1].id = last.arg.players[2].id
  /\ last.res.entries[1].wins = 2 /\ last.res.entries[1].matches = 2
  /\ last.res.entries[2].wins = 2 /\ last.res.entries[2].matches = 3

\* The calendar days on which the list of the last call has a match.
DaysPlayed == {(last.arg.matches[i].date - 1) \div TicksPerDay + 1 : i \in 1..Len(last.arg.matches)}
MatchesOn(d) == Cardinality({i \in 1..Len(last.arg.matches) : (last.arg.matches[i].date - 1) \div TicksPerDay + 1 = d})
Min(a, b) == IF a <= b THEN a ELSE b

\* C24: for every limit of 0 or more, the match activity has min(limit, D)
\* entries, D being the number of days with a match: the latest such days in
\* ascending order, each with the number of its matches.
C24_ActivityTail ==
  (last.op = "generateMatchActivityData" /\ last.status = "resolved")
  => LET es == last.res.entries
         n == Min(last.arg.limit, Cardinality(DaysPlayed))
     IN /\ Len(es) = n
        /\ \A i \in 1..Len(es) :
             /\ es[i].day.day \in DaysPlayed
             /\ es[i].count = MatchesOn(es[i].day.day)
             /\ Cardinality({d \in DaysPlayed : d > es[i].day.day}) = Len(es) - i

\* C25: headToHead(A, B, matches) and headToHead(B, A, matches) select the
\* same matches, report the win counts and the average scores of the two
\* players swapped, and report the same streak length and streak holder.
C25_HeadToHeadSymmetric ==
  (last.op = "calculateHeadToHead" /\ last.status = "resolved")
  => LET ab == last.res
         ba == calculateHeadToHead(last.arg.player2, last.arg.player1, last.arg.matches)
     IN /\ headToHeadMatches(last.arg.player1, last.arg.player2, last.arg.matches)
             = headToHeadMatches(last.arg.player2, last.arg.player1, last.arg.matches)
        /\ ab.totalMatches = ba.totalMatches
        /\ ab.player1Wins = ba.player2Wins
        /\ ab.player2Wins = ba.player1Wins
        /\ ab.player1AvgScore = ba.player2AvgScore
        /\ ab.player2AvgScore = ba.player1AvgScore
        /\ ab.currentStreak = ba.currentStreak
        /\ ab.streakHolder = ba.streakHolder

\* The requests of a cascade that have not completed: the delete of the room,
\* the two reads and the deletes issued after them.
Outstanding(d) ==
  (IF d.roomReq = "pending" THEN 1 ELSE 0)
  + (IF d.pRead THEN 0 ELSE 1) + Len(d.pQueue)
  + (IF d.mRead THEN 0 ELSE 1) + Len(d.mQueue)

\* C26: the promise of deleteRoom resolves only in the step in which the last
\* request of the cascade completes: the delete of the room, the delete of
\* every player and the delete of every match of the room have finished then.
C26_ResolvesAfterAll ==
  [][(last'.op = "deleteRoom" /\ last'.status = "resolved")
     => /\ dr.status = "pending"
        /\ dr.id = last'.arg.id
        /\ Outstanding(dr) = 1
        /\ dr' = IdleDr]_vars
\* A cascade resolved that had a player and a match to delete, with a player
\* of the other room left.
C26_Witness ==
  /\ last.op = "deleteRoom" /\ last.status = "resolved"
  /\ last.res.players = 1 /\ last.res.matches = 1
  /\ players # {}
  /\ dr = IdleDr

\* The step completes the delete request of the room, of the oldest player
\* request or of the oldest match request, and the record is still stored:
\* the request failed.
RoomDeleteFailed ==
  dr.roomReq = "pending" /\ dr'.roomReq # "pending" /\ HasKey(rooms', dr.id)
PlayerDeleteFailed ==
  dr.pQueue # <<>> /\ dr'.pQueue = Tail(dr.pQueue) /\ HasKey(players', Head(dr.pQueue))
MatchDeleteFailed ==
  dr.mQueue # <<>> /\ dr'.mQueue = Tail(dr.mQueue) /\ HasKey(matches', Head(dr.mQueue))
CascadeStep == last'.op = "deleteRoom" /\ last'.status # "pending" /\ dr.status \in {"pending", "rejected"}

\* C27: when a delete request of the cascade fails, deleteRoom rejects and
\* stays rejected; no step of the cascade puts a record back; a step of a
\* rejected cascade completes one request and leaves the others outstanding;
\* and an outstanding delete of a rejected cascade can still remove its
\* record.
C27_RejectsWithoutRollback ==
  /\ [][CascadeStep =>
          /\ (RoomDeleteFailed \/ PlayerDeleteFailed \/ MatchDeleteFailed) => last'.status = "rejected"
          /\ dr.status = "rejected" => last'.status = "rejected"
          /\ rooms' \subseteq rooms /\ players' \subseteq players /\ matches' \subseteq matches
          /\ last'.status = "rejected" =>
               /\ Outstanding(dr') + 1 >= Outstanding(dr)
               /\ dr.pQueue # <<>> => (dr'.pQueue \in {dr.pQueue, Tail(dr.pQueue)})
               /\ dr.mQueue # <<>> => (dr'.mQueue \in {dr.mQueue, Tail(dr.mQueue)})]_vars
  /\ []((dr.status = "rejected" /\ dr.pQueue # <<>>) => ENABLED DrPlayerDeleted)
  /\ []((dr.status = "rejected" /\ dr.mQueue # <<>>) => ENABLED DrMatchDeleted)
  /\ []((dr.status = "rejected" /\ dr.roomReq = "pending") => ENABLED DrRoomDeleted)
\* The delete of the room failed and the cascade is rejected; one of the two
\* player deletes issued has removed its player, the other is outstanding,
\* and the room is still stored.
C27_Witness ==
  /\ last.op = "deleteRoom" /\ last.status = "rejected"
  /\ dr.status = "rejected" /\ dr.roomReq = "failed"
  /\ HasKey(rooms, dr.id)
  /\ dr.pIssued = 2 /\ Len(dr.pQueue) = 1
  /\ Cardinality(InRoom(players, dr.id)) = 1

\* The writes of an import in the order rooms, players, matches, settings.
InOrder(data) ==
  [i \in 1..Len(Taken(data, "rooms")) |-> [c |-> "rooms", rec |-> Taken(data, "rooms")[i]]]
  \o [i \in 1..Len(Taken(data, "players")) |-> [c |-> "players", rec |-> Taken(data, "players")[i]]]
  \o [i \in 1..Len(Taken(data, "matches")) |-> [c |-> "matches", rec |-> Taken(data, "matches")[i]]]
  \o [i \in 1..Len(Taken(data, "settings")) |-> [c |-> "settings", rec |-> Taken(data, "settings")[i]]]
\* The first write that fails: its record has no key.
FailsAt(w, k) == ~Has(w[k].rec, "id") /\ \A j \in 1..(k - 1) : Has(w[j].rec, "id")
\* The i-th write is the last of the first n writes under its key.
LastWrite(w, i, n) == \A j \in (i + 1)..n : ~(w[j].c = w[i].c /\ w[j].rec.id = w[i].rec.id)

\* C28: when the write of a record fails, the import rejects; every record
\* before it in the order rooms, players, matches, settings is stored (the
\* last written under a key stands), and no record after it is written: a
\* record in a collection afterwards was there before or is one of those.
C28_FailedWriteStopsImport ==
  [][(ImportStep /\ DbImportAccepts(last'.arg.data)
      /\ last'.status \notin {"ValidationError"}
      /\ \E k \in 1..Len(InOrder(last'.arg.data)) : FailsAt(InOrder(last'.arg.data), k))
     => LET w == InOrder(last'.arg.data)
            k == CHOOSE i \in 1..Len(w) : FailsAt(w, i)
        IN /\ last'.status \notin {"resolved", "pending"}
           /\ \A i \in 1..(k - 1) : LastWrite(w, i, k - 1) => w[i].rec \in StoreNext[w[i].c]
           /\ \A c \in Collections : \A r \in StoreNext[c] :
                r \in Store[c] \/ \E i \in 1..(k - 1) : w[i].c = c /\ w[i].rec = r]_vars
\* An import through the validator failed at a setting without id: the room,
\* the player and the match are stored, the setting after it is not.
C28_Witness ==
  /\ last.op = "importData" /\ last.status = "DataError"
  /\ BRoom \in rooms /\ BPlayer \in players /\ BMatch \in matches
  /\ BSetting \notin settings

\* C29: in every reachable store and for every stored player P,
\* DB.getPlayerStats(P.id) and Stats.calculatePlayerStats(P, M), M being the
\* matches of P's room, agree in matches, wins, losses, winPercentage,
\* currentStreak and isWinningStreak.
C29_StatsAgree ==
  (last.op = "getPlayerStats" /\ last.status = "resolved")
  => LET P == StoreGet(players, last.arg.id)
         stats == calculatePlayerStats(P, getMatchesInRoom(Store, P.roomId))
     IN \A f \in {"matches", "wins", "losses", "winPercentage", "currentStreak", "isWinningStreak"} :
          last.res[f] = stats[f]

\* C30: every match recorded through the new-match form has the roomId of
\* both of its players, also when the form is submitted while a room switch
\* is in flight.
C30_MatchInRoomOfPlayers ==
  \A m \in matches : \A p \in players :
    p.id \in {m.player1Id, m.player2Id} => p.roomId = m.roomId
====
